---- MODULE Spec2Model ----
(***************************************************************************)
(* Model of the multi-source reconciliation of zev1ce/HVAC-Scripts:        *)
(* ExcelDataReader.read_from_multiple_sources and the readers it calls     *)
(* (src/src/excel_reader.py), specification Spec, and of the block         *)
(* operations of AutoCADController (src/src/autocad_controller.py),        *)
(* specification SpecCad.                                                  *)
(*                                                                         *)
(* Python values are modelled as strings.  A text value is the string      *)
(* itself; any other value is "#" followed by its repr: "#1200.0" is the   *)
(* float 1200.0, "#0" the int 0, "#nan" a NaN cell, "#None" is None.       *)
(***************************************************************************)
EXTENDS Integers, Sequences, FiniteSets, TLC

VARIABLES data_sources, pc, src_idx, source_data, rec_idx, all_room_data,
          room_order, source_stats, rooms_processed, fields_added, merged_data

\* the state of a call of AutoCADController (src/src/autocad_controller.py):
\* update_all_room_blocks, create_blocks_from_coordinates or
\* create_blocks_from_template
VARIABLES cad_op, cad_pc, acad_doc, template_exists, blocks_per_row,
          room_data_list, coordinates_list, model_space, room_blocks, room_i,
          stats, attempted

merge_vars == <<data_sources, pc, src_idx, source_data, rec_idx, all_room_data,
                room_order, source_stats, rooms_processed, fields_added, merged_data>>

cad_vars == <<cad_op, cad_pc, acad_doc, template_exists, blocks_per_row,
              room_data_list, coordinates_list, model_space, room_blocks, room_i,
              stats, attempted>>

\* the state of a run of main (src/main.py): the configuration file on disk,
\* the position in main, what the run has printed about the configuration
\* and which calls it has made so far
VARIABLES config_file, sample_file, main_pc, reports, effects, data_mode,
          main_sources, main_room_data

main_vars == <<config_file, sample_file, main_pc, reports, effects, data_mode,
               main_sources, main_room_data>>

\* the state of a reverse import (update_excel_with_block_data of
\* src/src/excel_reader.py, save_merged_data_with_block_updates of
\* src/main.py): the room records as they were passed and as they are now,
\* the block data, the position of the loop over the rooms
VARIABLES imp_op, imp_pc, imp_reverse_fields, imp_before, imp_room_data,
          imp_block_data, imp_i, updated_count, imp_result

import_vars == <<imp_op, imp_pc, imp_reverse_fields, imp_before, imp_room_data,
                 imp_block_data, imp_i, updated_count, imp_result>>

\* the state of a call that writes a room into the attributes of a block
\* (update_block_attributes or _fill_block_attributes of
\* src/src/autocad_controller.py): the attributes of the block, each a tag
\* and a text, and the position of the loop over them
VARIABLES attr_op, attr_pc, attr_room_data, attributes, attr_i, attr_updated,
          attr_result

attr_vars == <<attr_op, attr_pc, attr_room_data, attributes, attr_i, attr_updated,
               attr_result>>

\* the state of handle_coordinate_placement (src/main.py): the room records,
\* what has_coordinates_data returned, whether the user takes the coordinates
\* of the spreadsheet, what the user typed at each prompt, the coordinates
\* gathered and the blocks inserted
VARIABLES place_pc, place_room_data, has_coordinates, use_excel_coords, entered,
          coordinates, placed

place_vars == <<place_pc, place_room_data, has_coordinates, use_excel_coords, entered,
                coordinates, placed>>

\* the variables of the single operations
tool_vars == <<import_vars, attr_vars, place_vars>>

\* the variables outside the merge and outside the controller
flow_vars == <<main_vars, tool_vars>>

vars == <<merge_vars, cad_vars, flow_vars>>

(***************************************************************************)
(* Bounds of the model.                                                    *)
(***************************************************************************)
MaxSources == 2

(***************************************************************************)
(* Python primitives used by the readers.                                  *)
(***************************************************************************)
RECURSIVE lstrip(_)
lstrip(s) ==
    IF Len(s) > 0 /\ SubSeq(s, 1, 1) = " " THEN lstrip(SubSeq(s, 2, Len(s))) ELSE s

RECURSIVE rstrip(_)
rstrip(s) ==
    IF Len(s) > 0 /\ SubSeq(s, Len(s), Len(s)) = " "
    THEN rstrip(SubSeq(s, 1, Len(s) - 1)) ELSE s

\* variant: the whitespace is kept
strip_none(s) == s

\* str.strip()
strip(s) == rstrip(lstrip(s))

\* a value that is not text: a number, NaN or None
IsTagged(v) == Len(v) > 0 /\ SubSeq(v, 1, 1) = "#"

\* pd.isna(value)
isna(v) == v \in {"#nan", "#None"}

\* str(value)
str(v) == IF IsTagged(v) THEN SubSeq(v, 2, Len(v)) ELSE v

Digits == {"0", "1", "2", "3", "4", "5", "6", "7", "8", "9"}

RECURSIVE AllDigits(_)
AllDigits(s) ==
    Len(s) = 0 \/ (SubSeq(s, 1, 1) \in Digits /\ AllDigits(SubSeq(s, 2, Len(s))))

RECURSIVE IndexOfDot(_, _)
IndexOfDot(s, i) ==
    IF i > Len(s) THEN 0
    ELSE IF SubSeq(s, i, i) = "." THEN i ELSE IndexOfDot(s, i + 1)

\* the text is an optionally signed decimal literal: 12, 12.5, -3.0, 7.
IsDecimal(s) ==
    LET u == IF Len(s) > 0 /\ SubSeq(s, 1, 1) \in {"-", "+"}
             THEN SubSeq(s, 2, Len(s)) ELSE s
        d == IndexOfDot(u, 1)
    IN  IF d = 0 THEN Len(u) > 0 /\ AllDigits(u)
        ELSE /\ Len(u) > 1
             /\ AllDigits(SubSeq(u, 1, d - 1))
             /\ AllDigits(SubSeq(u, d + 1, Len(u)))

RECURSIVE DropLeadingZeros(_)
DropLeadingZeros(s) ==
    IF Len(s) > 1 /\ SubSeq(s, 1, 1) = "0" THEN DropLeadingZeros(SubSeq(s, 2, Len(s)))
    ELSE s

RECURSIVE DropTrailingZeros(_)
DropTrailingZeros(s) ==
    IF Len(s) > 1 /\ SubSeq(s, Len(s), Len(s)) = "0"
    THEN DropTrailingZeros(SubSeq(s, 1, Len(s) - 1)) ELSE s

\* repr(float(x)) of a decimal literal x
FloatRepr(s) ==
    LET neg  == Len(s) > 0 /\ SubSeq(s, 1, 1) = "-"
        u    == IF Len(s) > 0 /\ SubSeq(s, 1, 1) \in {"-", "+"}
                THEN SubSeq(s, 2, Len(s)) ELSE s
        d    == IndexOfDot(u, 1)
        ip   == IF d = 0 THEN u ELSE SubSeq(u, 1, d - 1)
        fp   == IF d = 0 THEN "" ELSE SubSeq(u, d + 1, Len(u))
        ip2  == DropLeadingZeros(IF ip = "" THEN "0" ELSE ip)
        fp2  == DropTrailingZeros(IF fp = "" THEN "0" ELSE fp)
    IN  (IF neg THEN "-" ELSE "") \o ip2 \o "." \o fp2

\* float(value) raises ValueError
FloatRaises(v) ==
    IF IsTagged(v) THEN ~IsDecimal(str(v)) /\ v # "#nan"
    ELSE ~IsDecimal(strip(v))

\* float(value), where it does not raise
float(v) ==
    IF v = "#nan" THEN v
    ELSE "#" \o FloatRepr(IF IsTagged(v) THEN str(v) ELSE strip(v))

(***************************************************************************)
(* Configuration: excel_columns maps a field identifier to the header of   *)
(* the spreadsheet column that holds it.                                   *)
(***************************************************************************)
excel_columns ==
    [f \in {"room_number", "room_name", "area", "heat_loss", "temperature"} |->
        CASE f = "room_number" -> "Room"
          [] f = "room_name"   -> "Name"
          [] f = "area"        -> "Area"
          [] f = "heat_loss"   -> "HeatLoss"
          [] f = "temperature" -> "Temp"]

\* the fields _extract_room_info parses as floating point
NumericFields ==
    {"area", "air_supply", "air_extract", "heat_loss", "temperature",
     "coordinate_x", "coordinate_y"}

(***************************************************************************)
(* The spreadsheets on disk: path -> table.  A table has its column        *)
(* headers and its data rows, each row a function from header to cell.     *)
(* A path outside the domain does not exist.                               *)
(***************************************************************************)
HeatRow(room, name, heat, temp) ==
    [c \in {"Room", "Name", "HeatLoss", "Temp"} |->
        CASE c = "Room" -> room [] c = "Name" -> name
          [] c = "HeatLoss" -> heat [] c = "Temp" -> temp]

AirRow(room, name, area, heat) ==
    [c \in {"Room", "Name", "Area", "HeatLoss"} |->
        CASE c = "Room" -> room [] c = "Name" -> name
          [] c = "Area" -> area [] c = "HeatLoss" -> heat]

\* a sheet without a header row, as a grid: each row is the sequence of its cells
GridWidth == 19

\* a grid row with cells in the columns A, B and S
LossRow(a, b, s) ==
    [c \in 1..GridWidth |->
        IF c = 1 THEN a ELSE IF c = 2 THEN b ELSE IF c = GridWidth THEN s ELSE "#nan"]

\* a heat-loss sheet: the title in the first row, in column title_col, a line
\* of captions, the data from row 20 on.  The Russian terms of the sheets
\* are written in Latin letters: "teplopoter" is the marker term.
LossSheet(title_col) ==
    [n \in 1..23 |->
        CASE n = 1  -> [c \in 1..GridWidth |->
                          IF c = title_col THEN "Raschet TEPLOPOTER zdaniya" ELSE "#nan"]
          [] n = 18 -> LossRow("N", "Naimenovanie", "Q, Vt")
          [] n = 20 -> LossRow("#201", " Sklad ", "#850")
          [] n = 21 -> LossRow("#nan", "Itogo", "#850")
          [] n = 22 -> LossRow("202", "Ceh", "12,5")
          [] n = 23 -> LossRow("203", "Zal", "#nan")
          [] OTHER  -> LossRow("#nan", "#nan", "#nan")]

\* the name pandas gives the column c of a sheet read with a header row
HeaderName(cell, c) == IF isna(cell) THEN "Unnamed: " \o ToString(c - 1) ELSE str(cell)

\* the table pandas reads from a grid whose first row is taken as the header
GridTable(grid) ==
    LET names == {HeaderName(grid[1][c], c) : c \in 1..Len(grid[1])}
        col(h) == CHOOSE c \in 1..Len(grid[1]) : HeaderName(grid[1][c], c) = h
    IN  [readable |-> TRUE,
         columns  |-> names,
         rows     |-> [n \in 1..(Len(grid) - 1) |-> [h \in names |-> grid[n + 1][col(h)]]],
         grid     |-> grid]

\* a row of the file create_sample_excel writes, in the columns of the mapping
SampleRow(room, name, area, heat, temp) ==
    [c \in {"Room", "Name", "Area", "HeatLoss", "Temp"} |->
        CASE c = "Room" -> room [] c = "Name" -> name [] c = "Area" -> area
          [] c = "HeatLoss" -> heat [] c = "Temp" -> temp]

\* sample_data of create_sample_excel
sample_data ==
    << SampleRow("101", "Ofis glavnogo inzhenera", "#25.5", "#1200", "#22"),
       SampleRow("102", "Konferenc-zal", "#45.0", "#2800", "#20"),
       SampleRow("103", "Kabinet proektirovschika", "#18.2", "#950", "#23"),
       SampleRow("104", "Arhiv dokumentacii", "#12.0", "#600", "#18"),
       SampleRow("105", "Servernaya", "#8.5", "#3500", "#25") >>

FileSystem ==
    [p \in {"heat.xlsx", "air.xlsx", "empty.xlsx", "notes.txt", "loss.xlsx", "lossb.xlsx",
            "sample_hvac_data.xlsx"} |->
        CASE p = "heat.xlsx" ->
               [readable |-> TRUE,
                columns  |-> {"Room", "Name", "HeatLoss", "Temp"},
                rows     |-> << HeatRow("101", "Office", "#1200", " 22 "),
                                HeatRow("#nan", "Total", "#1200", "#nan"),
                                HeatRow("103", " Store ", "#nan", "#0"),
                                HeatRow("104", "Lab", "12,5", "#21") >>]
          [] p = "air.xlsx" ->
               [readable |-> TRUE,
                columns  |-> {"Room", "Name", "Area", "HeatLoss"},
                rows     |-> << AirRow(" 101 ", "Hall", "#25.5", "#0"),
                                AirRow("  ", "Ghost", "#9.9", "#50"),
                                AirRow("#102", "#nan", "40.50", "#300") >>]
          [] p = "empty.xlsx" ->
               [readable |-> TRUE,
                columns  |-> {"Room", "Name"},
                rows     |-> << >>]
          [] p = "notes.txt" ->
               [readable |-> TRUE,
                columns  |-> {"Room", "Name"},
                rows     |-> << [c \in {"Room", "Name"} |->
                                   IF c = "Room" THEN "900" ELSE "Note"] >>]
          [] p = "sample_hvac_data.xlsx" ->
               [readable |-> TRUE,
                columns  |-> {"Room", "Name", "Area", "HeatLoss", "Temp"},
                rows     |-> sample_data]
          [] p = "loss.xlsx"  -> GridTable(LossSheet(1))
          [] p = "lossb.xlsx" -> GridTable(LossSheet(2)) ]

(***************************************************************************)
(* Field Mapping Resolver.                                                 *)
(***************************************************************************)
\* the result None of _extract_room_info
None == << >>

\* the value _extract_room_info stores for one cell
CoerceCell(field, value) ==
    IF isna(value) THEN ""
    ELSE IF field \in NumericFields
         THEN (IF value # "" THEN float(value) ELSE "#0.0")
         ELSE strip(str(value))

_extract_room_info(row) ==
    LET present == {f \in DOMAIN excel_columns : excel_columns[f] \in DOMAIN row}
        raises  == \E f \in present :
                      LET value == row[excel_columns[f]]
                      IN  /\ ~isna(value)
                          /\ f \in NumericFields
                          /\ value # ""
                          /\ FloatRaises(value)
        room_info == [f \in present |-> CoerceCell(f, row[excel_columns[f]])]
    IN  IF raises THEN None
        ELSE IF "room_number" \notin present \/ room_info["room_number"] = ""
             THEN None
             ELSE room_info

\* str.endswith
endswith(s, suffix) ==
    Len(s) >= Len(suffix) /\ SubSeq(s, Len(s) - Len(suffix) + 1, Len(s)) = suffix

normalize_file_path(file_path) ==
    LET normalized_path == strip(file_path)
    IN  IF /\ Len(normalized_path) > 0
           /\ SubSeq(normalized_path, 1, 1) = "\""
           /\ endswith(normalized_path, "\"")
        THEN SubSeq(normalized_path, 2, Len(normalized_path) - 1)
        ELSE normalized_path

check_file_availability(file_path) ==
    /\ file_path \in DOMAIN FileSystem
    /\ endswith(file_path, ".xlsx") \/ endswith(file_path, ".xls")
    /\ FileSystem[file_path].readable

\* variant: the first row that does not resolve ends the reading
RECURSIVE ExtractRows_break(_)
ExtractRows_break(rows) ==
    IF rows = << >> THEN << >>
    ELSE LET room_info == _extract_room_info(Head(rows))
         IN  IF room_info # None THEN <<room_info>> \o ExtractRows_break(Tail(rows))
             ELSE << >>

RECURSIVE ExtractRows(_)
ExtractRows(rows) ==
    IF rows = << >> THEN << >>
    ELSE LET room_info == _extract_room_info(Head(rows))
         IN  IF room_info # None THEN <<room_info>> \o ExtractRows(Tail(rows))
             ELSE ExtractRows(Tail(rows))

\* df.dropna(subset=[column])
dropna(rows, column) == SelectSeq(rows, LAMBDA row : ~isna(row[column]))

_read_standard_table(excel_path) ==
    LET table  == FileSystem[excel_path]
        column == excel_columns["room_number"]
    IN  IF excel_path \notin DOMAIN FileSystem \/ ~FileSystem[excel_path].readable
        THEN << >>
        ELSE IF column \notin table.columns THEN << >>
        ELSE ExtractRows(dropna(table.rows, column))

(***************************************************************************)
(* Table type detection and the reader of heat-loss tables.                *)
(***************************************************************************)
\* the order of the columns in the sheets that are given by their header
ColumnOrder == <<"Room", "Name", "Area", "HeatLoss", "Temp">>

\* the grid of a table: the grid itself, or the header row and the rows
\* under it
sheet_of(table) ==
    LET header == SelectSeq(ColumnOrder, LAMBDA c : c \in table.columns)
    IN  IF "grid" \in DOMAIN table THEN table.grid
        ELSE <<header>> \o
             [n \in 1..Len(table.rows) |-> [c \in 1..Len(header) |-> table.rows[n][header[c]]]]

\* pd.read_excel(path, header=None): the sheet as a grid, the header row first
read_excel_raw(excel_path) == sheet_of(FileSystem[excel_path])

UpperCase == "ABCDEFGHIJKLMNOPQRSTUVWXYZ"
LowerCase == "abcdefghijklmnopqrstuvwxyz"

\* str.lower()
RECURSIVE lower(_)
lower(s) ==
    IF Len(s) = 0 THEN s
    ELSE LET ch == SubSeq(s, 1, 1)
             up == {n \in 1..Len(UpperCase) : SubSeq(UpperCase, n, n) = ch}
         IN  (IF up = {} THEN ch
              ELSE LET n == CHOOSE n \in up : TRUE IN SubSeq(LowerCase, n, n))
             \o lower(SubSeq(s, 2, Len(s)))

\* needle in s
Contains(needle, s) ==
    \E n \in 1..(Len(s) - Len(needle) + 1) : SubSeq(s, n, n + Len(needle) - 1) = needle

\* nrows=25
SampleRows == 25

\* the terms detect_table_type looks for, in Latin letters
HeatLossMarkers == {"raschet teplopoter", "teplopoter"}
StandardHeaders == {"nomer pomescheniya", "naimenovanie", "ploschad"}
FirstRowHeaders == {"nomer", "nazvanie", "ploschad"}

\* the loop over the rows of df_sample, from row n on: the type the loop
\* returns, or "" when it ends without a return
RECURSIVE ScanFirstColumn(_, _)
ScanFirstColumn(df_sample, n) ==
    IF n > Len(df_sample) THEN ""
    ELSE IF Len(df_sample[n]) = 0 THEN ScanFirstColumn(df_sample, n + 1)
    ELSE LET cell_text == lower(str(df_sample[n][1]))
         IN  IF \E m \in HeatLossMarkers : Contains(m, cell_text) THEN "heat_loss"
             ELSE IF \E h \in StandardHeaders : Contains(h, cell_text) THEN "standard"
             ELSE ScanFirstColumn(df_sample, n + 1)

\* the rows pd.read_excel(..., nrows=n) keeps
nrows(sheet, n) == SubSeq(sheet, 1, IF Len(sheet) < n THEN Len(sheet) ELSE n)

\* the type found by the loop, or by the check of the first row after it
sample_type(df_sample, found) ==
    LET first_row == IF Len(df_sample) > 0 THEN df_sample[1] ELSE << >>
        headers   == {lower(str(first_row[c])) :
                         c \in {c \in 1..Len(first_row) : c <= 5 /\ ~isna(first_row[c])}}
    IN  IF found # "" THEN found
        ELSE IF /\ Len(first_row) > 2
                /\ \E h \in headers : \E w \in FirstRowHeaders : Contains(w, h)
             THEN "standard"
             ELSE "standard"

\* the type of the table whose first rows are df_sample
sample_table_type(df_sample) == sample_type(df_sample, ScanFirstColumn(df_sample, 1))

detect_table_type(excel_path) ==
    sample_table_type(nrows(read_excel_raw(excel_path), SampleRows))

\* skiprows=19
skiprows == 19

\* the record read_heat_loss_table makes of a row, or None when it skips the row
heat_loss_record(row) ==
    LET room_number == IF Len(row) > 0 /\ ~isna(row[1]) THEN row[1] ELSE "#None"
        room_name   == IF Len(row) > 1 /\ ~isna(row[2]) THEN row[2] ELSE "#None"
        heat_loss   == IF Len(row) > 18 /\ ~isna(row[19]) THEN row[19] ELSE "#None"
        room_number_str == strip(str(room_number))
        room_name_str   == strip(str(room_name))
    IN  IF room_number = "#None" \/ room_name = "#None" THEN None
        ELSE IF room_number_str \in {"nan", "None", ""} THEN None
        ELSE IF room_name_str \in {"nan", "None", ""} THEN None
        ELSE [room_number |-> room_number_str,
              room_name   |-> room_name_str,
              heat_loss   |-> IF heat_loss = "#None" \/ FloatRaises(heat_loss)
                              THEN "#0.0" ELSE float(heat_loss),
              temperature |-> "#20.0"]

\* variant: the first row that is skipped ends the loop over the rows
RECURSIVE HeatLossRows_break(_)
HeatLossRows_break(rows) ==
    IF rows = << >> THEN << >>
    ELSE LET room_info == heat_loss_record(Head(rows))
         IN  IF room_info # None THEN <<room_info>> \o HeatLossRows_break(Tail(rows))
             ELSE << >>

RECURSIVE HeatLossRows(_)
HeatLossRows(rows) ==
    IF rows = << >> THEN << >>
    ELSE LET room_info == heat_loss_record(Head(rows))
         IN  IF room_info # None THEN <<room_info>> \o HeatLossRows(Tail(rows))
             ELSE HeatLossRows(Tail(rows))

read_heat_loss_table(excel_path) ==
    LET normalized_path == normalize_file_path(excel_path)
        sheet == read_excel_raw(normalized_path)
    IN  IF ~check_file_availability(normalized_path) THEN << >>
        ELSE HeatLossRows(SubSeq(sheet, skiprows + 1, Len(sheet)))

\* the function with domain S that maps x to Op(x), computed once
Tabulate(S, Op(_)) == [x \in S |-> Op(x)] @@ << >>

\* what the detector and the two readers return for each file on disk
table_type_of     == Tabulate(DOMAIN FileSystem, detect_table_type)
heat_loss_table_of == Tabulate(DOMAIN FileSystem, read_heat_loss_table)
standard_table_of == Tabulate(DOMAIN FileSystem, _read_standard_table)

read_room_data(excel_path) ==
    LET normalized_path == normalize_file_path(excel_path)
    IN  IF ~check_file_availability(normalized_path) THEN << >>
        ELSE IF table_type_of[normalized_path] = "heat_loss"
             THEN heat_loss_table_of[normalized_path]
             ELSE standard_table_of[normalized_path]

(***************************************************************************)
(* The inputs: source descriptors, as the dictionaries handed to           *)
(* read_from_multiple_sources.  A key may be missing from a descriptor.    *)
(***************************************************************************)
\* dict.get(key, default)
get(d, key, default) == IF key \in DOMAIN d THEN d[key] ELSE default

Priorities == {-2, 1, 2}

SourceName(path) == IF path = "heat.xlsx" THEN "heat" ELSE "air"

\* the allow-lists of a source: none (every field), or the fields it is read for
FieldLists(path) ==
    { {}, IF path = "heat.xlsx" THEN {"heat_loss", "temperature"}
                                ELSE {"area", "heat_loss"} }

LoadableSources ==
    UNION { { [name |-> SourceName(p), file_path |-> p, fields |-> fl, priority |-> pr] :
                fl \in FieldLists(p), pr \in Priorities } :
            p \in {"heat.xlsx", "air.xlsx"} }

OtherSources ==
    { [name |-> "nofile", fields |-> {}, priority |-> 2],
      [name |-> "missing", file_path |-> "missing.xlsx", fields |-> {}, priority |-> 2],
      [name |-> "empty", file_path |-> "empty.xlsx", fields |-> {}, priority |-> 2],
      [name |-> "notes", file_path |-> "notes.txt", fields |-> {}, priority |-> 2],
      [name |-> "plain", file_path |-> " \"air.xlsx\" "],
      [name |-> "loss", file_path |-> "loss.xlsx", fields |-> {}, priority |-> 1],
      [name |-> "lossb", file_path |-> "lossb.xlsx", fields |-> {}, priority |-> 1] }

Sources == LoadableSources \cup OtherSources

SourceLists == UNION { [1..n -> Sources] : n \in 0..MaxSources }

(***************************************************************************)
(* Multi-Source Merge Engine: the steps of read_from_multiple_sources.     *)
(***************************************************************************)
\* variant: only the empty text and None count as not provided
NotProvided_text == {"", "#None"}

\* the values the merge treats as "not provided": value in ["", 0, 0.0, None]
NotProvided == {"", "#0", "#0.0", "#-0.0", "#None"}

\* f"_{field}_priority"
PriorityKey(field) == "_" \o field \o "_priority"

\* variant: the allow-list is not consulted
IsFiltered_none(allowed_fields, field) == FALSE

\* allowed_fields and field not in allowed_fields
IsFiltered(allowed_fields, field) == allowed_fields # {} /\ field \notin allowed_fields

\* variant: only the recorded priority decides, also for a field the record
\* does not hold yet
should_update_recorded(room_data, field, priority) ==
    get(room_data.data, PriorityKey(field), -1) <= priority

\* A merged record is the dictionary all_room_data[room_num]: data holds its
\* keys other than "_sources" and "_priority", which are kept apart.
should_update(room_data, field, priority) ==
    \/ field \notin DOMAIN room_data.data
    \/ get(room_data.data, PriorityKey(field), -1) <= priority

\* variant: every value counts as provided
IsProvided_any(value) == TRUE

IsProvided(value) == value \notin NotProvided

NewRoom(room_num) ==
    [data |-> ("room_number" :> room_num), _sources |-> << >>, _priority |-> << >>]

\* the fields of room_record that the inner loop writes into room_data
UpdatedFields(room_data, room_record, allowed_fields, priority) ==
    { field \in DOMAIN room_record :
        /\ field # "room_number"
        /\ ~IsFiltered(allowed_fields, field)
        /\ should_update(room_data, field, priority)
        /\ IsProvided(room_record[field]) }

MergeFields(room_data, room_record, source_name, allowed_fields, priority) ==
    LET upd == UpdatedFields(room_data, room_record, allowed_fields, priority)
    IN  [data      |-> [k \in DOMAIN room_data.data \cup upd |->
                          IF k \in upd THEN room_record[k] ELSE room_data.data[k]],
         _sources  |-> [k \in DOMAIN room_data._sources \cup upd |->
                          IF k \in upd THEN source_name ELSE room_data._sources[k]],
         _priority |-> [k \in DOMAIN room_data._priority \cup upd |->
                          IF k \in upd THEN priority ELSE room_data._priority[k]]]

\* k.startswith("_")
startswith(k, prefix) ==
    Len(k) >= Len(prefix) /\ SubSeq(k, 1, Len(prefix)) = prefix

\* room_data.keys(): the fields and the bookkeeping entries of a room
keys(room_data) == DOMAIN room_data.data \cup {"_sources", "_priority"}

\* room_data[k]
item(room_data, k) ==
    IF k = "_sources" THEN room_data._sources
    ELSE IF k = "_priority" THEN room_data._priority
    ELSE room_data.data[k]

\* variant: the record is returned with all its keys
clean_room_all(room_data) == [k \in keys(room_data) |-> item(room_data, k)]

\* {k: v for k, v in room_data.items() if not k.startswith("_")}
clean_room(room_data) ==
    [k \in {k \in keys(room_data) : ~startswith(k, "_")} |-> item(room_data, k)]

\* room_num = str(room_record.get("room_number", "")).strip()
room_key(room_record) == strip(str(get(room_record, "room_number", "")))

\* all_room_data[room_num], initialised when the room is not there yet
room_entry(rooms, room_num) ==
    IF room_num \in DOMAIN rooms THEN rooms[room_num] ELSE NewRoom(room_num)

\* all_room_data after the body of the loop over source_data has run for room_record
merge_room_record(rooms, room_record, name, fields, prio) ==
    LET room_num == room_key(room_record)
    IN  IF room_num = "" THEN rooms
        ELSE [r \in DOMAIN rooms \cup {room_num} |->
                IF r = room_num
                THEN MergeFields(room_entry(rooms, room_num), room_record, name, fields, prio)
                ELSE rooms[r]]

\* what the body of the loop adds to fields_added for room_record
count_fields(rooms, room_record, fields, prio) ==
    LET room_num == room_key(room_record)
    IN  IF room_num = "" THEN 0
        ELSE Cardinality(UpdatedFields(room_entry(rooms, room_num), room_record, fields, prio))

\* variant: rooms that received no field are left out of the output
build_merged_nonempty(rooms, order) ==
    LET kept == SelectSeq(order, LAMBDA r : DOMAIN rooms[r].data # {"room_number"})
    IN  [i \in 1..Len(kept) |-> clean_room(rooms[kept[i]])]

\* merged_data: the records of all_room_data, in insertion order, without "_" keys
build_merged(rooms, order) ==
    [i \in 1..Len(order) |-> clean_room(rooms[order[i]])]

source        == data_sources[src_idx]
source_name   == get(source, "name", "unknown")
file_path     == get(source, "file_path", "")
allowed_fields == get(source, "fields", {})
priority      == get(source, "priority", 0)

\* main is not running
MainIdle ==
    /\ config_file = "valid"
    /\ sample_file = FALSE
    /\ main_pc = "idle"
    /\ reports = 0
    /\ effects = << >>
    /\ data_mode = ""
    /\ main_sources = << >>
    /\ main_room_data = << >>

\* no reverse import is under way
ImportIdle ==
    /\ imp_op = ""
    /\ imp_pc = "idle"
    /\ imp_reverse_fields = << >>
    /\ imp_before = << >>
    /\ imp_room_data = << >>
    /\ imp_block_data = << >>
    /\ imp_i = 1
    /\ updated_count = 0
    /\ imp_result = "#None"

\* no block is being written
AttrIdle ==
    /\ attr_op = ""
    /\ attr_pc = "idle"
    /\ attr_room_data = << >>
    /\ attributes = << >>
    /\ attr_i = 1
    /\ attr_updated = 0
    /\ attr_result = "#None"

\* no placement by coordinates is under way
PlaceIdle ==
    /\ place_pc = "idle"
    /\ place_room_data = << >>
    /\ has_coordinates = "#None"
    /\ use_excel_coords = "#None"
    /\ entered = << >>
    /\ coordinates = << >>
    /\ placed = << >>

ToolsIdle == ImportIdle /\ AttrIdle /\ PlaceIdle

\* nothing outside the merge and the controller is under way
FlowIdle == MainIdle /\ ToolsIdle

\* no call of the AutoCAD controller is under way
CadIdle ==
    /\ cad_op = "none"
    /\ cad_pc = "idle"
    /\ acad_doc = FALSE
    /\ template_exists = FALSE
    /\ blocks_per_row = 10
    /\ room_data_list = << >>
    /\ coordinates_list = << >>
    /\ model_space = << >>
    /\ room_blocks = << >>
    /\ room_i = 1
    /\ stats = << >>
    /\ attempted = << >>

Init ==
    /\ CadIdle
    /\ FlowIdle
    /\ data_sources \in SourceLists
    /\ pc = "sources"
    /\ src_idx = 1
    /\ source_data = << >>
    /\ rec_idx = 1
    /\ all_room_data = << >>
    /\ room_order = << >>
    /\ source_stats = << >>
    /\ rooms_processed = 0
    /\ fields_added = 0
    /\ merged_data = << >>

\* if not file_path: continue
SkipSource ==
    /\ pc = "sources" /\ src_idx <= Len(data_sources)
    /\ file_path = ""
    /\ src_idx' = src_idx + 1
    /\ UNCHANGED <<data_sources, pc, source_data, rec_idx, all_room_data, room_order,
                   source_stats, rooms_processed, fields_added, merged_data>>
    /\ UNCHANGED <<cad_vars, flow_vars>>

\* variant: a source that cannot be read ends the loop over the sources
ReadFailed_return ==
    /\ pc = "sources" /\ src_idx <= Len(data_sources)
    /\ file_path # ""
    /\ read_room_data(file_path) = << >>
    /\ src_idx' = Len(data_sources) + 1
    /\ UNCHANGED <<data_sources, pc, source_data, rec_idx, all_room_data, room_order,
                   source_stats, rooms_processed, fields_added, merged_data>>
    /\ UNCHANGED <<cad_vars, flow_vars>>

\* variant: the failure to read a source propagates as an exception
ReadFailed_raise ==
    /\ pc = "sources" /\ src_idx <= Len(data_sources)
    /\ file_path # ""
    /\ read_room_data(file_path) = << >>
    /\ pc' = "raised"
    /\ UNCHANGED <<data_sources, src_idx, source_data, rec_idx, all_room_data, room_order,
                   source_stats, rooms_processed, fields_added, merged_data>>
    /\ UNCHANGED <<cad_vars, flow_vars>>

\* source_data = read_room_data(...); if not source_data: ...; continue
ReadFailed ==
    /\ pc = "sources" /\ src_idx <= Len(data_sources)
    /\ file_path # ""
    /\ read_room_data(file_path) = << >>
    /\ source_stats' = [n \in DOMAIN source_stats \cup {source_name} |->
                          IF n = source_name THEN [rooms |-> 0, fields_added |-> 0]
                          ELSE source_stats[n]]
    /\ src_idx' = src_idx + 1
    /\ UNCHANGED <<data_sources, pc, source_data, rec_idx, all_room_data, room_order,
                   rooms_processed, fields_added, merged_data>>
    /\ UNCHANGED <<cad_vars, flow_vars>>

\* source_data = read_room_data(...); rooms_processed = 0; fields_added = 0
ReadSource ==
    /\ pc = "sources" /\ src_idx <= Len(data_sources)
    /\ file_path # ""
    /\ read_room_data(file_path) # << >>
    /\ source_data' = read_room_data(file_path)
    /\ rec_idx' = 1
    /\ rooms_processed' = 0
    /\ fields_added' = 0
    /\ pc' = "records"
    /\ UNCHANGED <<data_sources, src_idx, all_room_data, room_order, source_stats,
                   merged_data>>
    /\ UNCHANGED <<cad_vars, flow_vars>>

\* one iteration of: for room_record in source_data
MergeRecord ==
    /\ pc = "records" /\ rec_idx <= Len(source_data)
    /\ LET room_record == source_data[rec_idx]
           room_num    == room_key(room_record)
       IN  /\ all_room_data' = merge_room_record(all_room_data, room_record,
                                                 source_name, allowed_fields, priority)
           /\ room_order' = IF room_num = "" \/ room_num \in DOMAIN all_room_data
                            THEN room_order ELSE Append(room_order, room_num)
           /\ fields_added' = fields_added +
                  count_fields(all_room_data, room_record, allowed_fields, priority)
           /\ rooms_processed' = IF room_num = "" THEN rooms_processed
                                 ELSE rooms_processed + 1
    /\ rec_idx' = rec_idx + 1
    /\ UNCHANGED <<data_sources, pc, src_idx, source_data, source_stats, merged_data>>
    /\ UNCHANGED <<cad_vars, flow_vars>>

\* variant: the loop over source_data may be left before its last record
EndSource_early ==
    /\ pc = "records"
    /\ source_stats' = [n \in DOMAIN source_stats \cup {source_name} |->
                          IF n = source_name
                          THEN [rooms |-> rooms_processed, fields_added |-> fields_added]
                          ELSE source_stats[n]]
    /\ src_idx' = src_idx + 1
    /\ pc' = "sources"
    /\ UNCHANGED <<data_sources, source_data, rec_idx, all_room_data, room_order,
                   rooms_processed, fields_added, merged_data>>
    /\ UNCHANGED <<cad_vars, flow_vars>>

\* the loop over source_data is over: source_stats[source_name] = {...}
EndSource ==
    /\ pc = "records" /\ rec_idx > Len(source_data)
    /\ source_stats' = [n \in DOMAIN source_stats \cup {source_name} |->
                          IF n = source_name
                          THEN [rooms |-> rooms_processed, fields_added |-> fields_added]
                          ELSE source_stats[n]]
    /\ src_idx' = src_idx + 1
    /\ pc' = "sources"
    /\ UNCHANGED <<data_sources, source_data, rec_idx, all_room_data, room_order,
                   rooms_processed, fields_added, merged_data>>
    /\ UNCHANGED <<cad_vars, flow_vars>>

\* the loop over data_sources is over: build merged_data and return it
Finish ==
    /\ pc = "sources" /\ src_idx > Len(data_sources)
    /\ merged_data' = build_merged(all_room_data, room_order)
    /\ pc' = "done"
    /\ UNCHANGED <<data_sources, src_idx, source_data, rec_idx, all_room_data, room_order,
                   source_stats, rooms_processed, fields_added>>
    /\ UNCHANGED <<cad_vars, flow_vars>>

Next == SkipSource \/ ReadFailed \/ ReadSource \/ MergeRecord \/ EndSource \/ Finish

Spec == Init /\ [][Next]_vars

(***************************************************************************)
(* The AutoCAD controller (src/src/autocad_controller.py).  The drawing    *)
(* is reached through COM: a call may return, or raise.  An exception is   *)
(* modelled by the name of its class; "com_error" is pywintypes.com_error, *)
(* the error of a failed COM call, a direct subclass of Exception.         *)
(***************************************************************************)
MaxRooms == 2

MaxEntities == 2

Exceptions ==
    {"com_error", "AttributeError", "ValueError", "IndexError", "TypeError",
     "RuntimeError", "ZeroDivisionError", "PermissionError"}

\* what a call of ModelSpace.InsertBlock does: it returns a block reference
\* or None, or it raises
InsertOutcomes == {"block", "None", "com_error", "AttributeError"}

\* what happens inside _fill_block_attributes: all goes well, the block has
\* no GetAttributes, or GetAttributes, an attribute or Update raises
FillOutcomes == {"ok", "no GetAttributes", "AttributeError", "ValueError", "com_error"}

\* what acad_doc.Save() does
SaveOutcomes == {"ok", "AttributeError", "PermissionError", "com_error"}

\* what iterating acad_doc.ModelSpace does
ModelSpaceOutcomes == {"ok", "AttributeError", "RuntimeError", "com_error"}

\* _fill_block_attributes: "True", "False", or the exception that leaves it
_fill_block_attributes(outcome) ==
    IF outcome = "ok" THEN "True"
    ELSE IF outcome = "no GetAttributes" THEN "False"
    ELSE IF outcome \in {"AttributeError", "ValueError"} THEN "False"
    ELSE outcome

\* create_blocks_from_coordinates: method 1, and on any exception the
\* fallback, whose exception is not caught here
coordinates_insert(first, second) == IF first \in Exceptions THEN second ELSE first

\* create_blocks_from_template: method 1, and on any exception the fallback,
\* whose exception is raised again as RuntimeError
template_insert(first, second) ==
    IF first \in Exceptions
    THEN (IF second \in Exceptions THEN "RuntimeError" ELSE second)
    ELSE first

\* the rest of the loop body: block_ref is None raises RuntimeError, else the
\* attributes are filled
fill_inserted(block_ref, fill) ==
    IF block_ref \in Exceptions THEN block_ref
    ELSE IF block_ref = "None" THEN "RuntimeError"
    ELSE _fill_block_attributes(fill)

\* except (AttributeError, ValueError, IndexError)
coordinates_except(exception) == exception \in {"AttributeError", "ValueError", "IndexError"}

\* variant: the handler of create_blocks_from_coordinates
template_except_some(exception) == exception \in {"AttributeError", "ValueError", "IndexError"}

\* except Exception
template_except(exception) == exception \in Exceptions

\* row = i // blocks_per_row; col = i % blocks_per_row
grid_arithmetic(per_row) == IF per_row = 0 THEN "ZeroDivisionError" ELSE "ok"

\* stats after one room: created counts True, errors counts False and the
\* exceptions the handler catches
count_room(st, result) ==
    IF result = "True" THEN [st EXCEPT !.created = @ + 1]
    ELSE [st EXCEPT !.errors = @ + 1]

UpperCaseOf(ch) ==
    LET low == {n \in 1..Len(LowerCase) : SubSeq(LowerCase, n, n) = ch}
    IN  IF low = {} THEN ch ELSE LET n == CHOOSE n \in low : TRUE IN SubSeq(UpperCase, n, n)

\* str.upper()
RECURSIVE upper(_)
upper(s) == IF Len(s) = 0 THEN s ELSE UpperCaseOf(SubSeq(s, 1, 1)) \o upper(SubSeq(s, 2, Len(s)))

\* config["target_blocks"]
target_blocks == {"ROOM"}

\* the entities a drawing may hold: block references with their effective
\* name and the text of their room number attribute ("#None": no such
\* attribute), and other objects
Entities ==
    { [ObjectName |-> "AcDbBlockReference", EffectiveName |-> "Room_Tag", room_number |-> "101"],
      [ObjectName |-> "AcDbBlockReference", EffectiveName |-> "Room_Tag", room_number |-> " 205 "],
      [ObjectName |-> "AcDbBlockReference", EffectiveName |-> "Door", room_number |-> "#None"],
      [ObjectName |-> "AcDbLine", EffectiveName |-> "", room_number |-> "#None"] }

\* _get_room_number_from_block: the stripped text, or None
_get_room_number_from_block(entity) ==
    IF entity.room_number = "#None" THEN "#None" ELSE strip(entity.room_number)

\* the entities find_room_blocks appends to room_blocks
IsRoomBlock(entity) ==
    /\ entity.ObjectName = "AcDbBlockReference"
    /\ \E target \in target_blocks : Contains(target, upper(entity.EffectiveName))
    /\ _get_room_number_from_block(entity) \notin {"#None", ""}

\* find_room_blocks: the list of the entities themselves, [] on any exception
find_room_blocks(connected, space, outcome) ==
    IF ~connected THEN << >>
    ELSE IF outcome \in Exceptions THEN << >>
    ELSE SelectSeq(space, IsRoomBlock)

RoomLists ==
    UNION { [1..n -> {[room_number |-> r] : r \in {"101", "102"}}] : n \in 0..MaxRooms }

CoordinateLists == UNION { [1..n -> {<<100, 50>>}] : n \in 0..MaxRooms }

ModelSpaces == UNION { [1..n -> Entities] : n \in 0..MaxEntities }

MergeIdle ==
    /\ data_sources = << >>
    /\ pc = "idle"
    /\ src_idx = 1
    /\ source_data = << >>
    /\ rec_idx = 1
    /\ all_room_data = << >>
    /\ room_order = << >>
    /\ source_stats = << >>
    /\ rooms_processed = 0
    /\ fields_added = 0
    /\ merged_data = << >>

\* a call of one of the three operations, with its arguments and the state
\* of the controller and of the drawing
CadInit ==
    /\ MergeIdle
    /\ FlowIdle
    /\ cad_pc = "start"
    /\ room_i = 1
    /\ stats = << >>
    /\ attempted = << >>
    /\ room_blocks = << >>
    /\ acad_doc \in BOOLEAN
    /\ room_data_list \in RoomLists
    /\ \/ /\ cad_op = "update_all_room_blocks"
          /\ model_space \in ModelSpaces
          /\ template_exists = FALSE /\ blocks_per_row = 10 /\ coordinates_list = << >>
       \/ /\ cad_op = "create_blocks_from_coordinates"
          /\ template_exists \in BOOLEAN
          /\ coordinates_list \in CoordinateLists
          /\ model_space = << >> /\ blocks_per_row = 10
       \/ /\ cad_op = "create_blocks_from_template"
          /\ template_exists \in BOOLEAN
          /\ blocks_per_row \in {0, 10}
          /\ model_space = << >> /\ coordinates_list = << >>

\* update_all_room_blocks up to its loop: without a document it returns the
\* zero statistics, else it calls find_room_blocks
UpdateBegin ==
    /\ cad_op = "update_all_room_blocks" /\ cad_pc = "start"
    /\ \E outcome \in ModelSpaceOutcomes :
          room_blocks' = find_room_blocks(acad_doc, model_space, outcome)
    /\ stats' = [updated |-> 0, not_found |-> 0, errors |-> 0]
    /\ cad_pc' = IF acad_doc THEN "loop" ELSE "returned"
    /\ UNCHANGED <<cad_op, acad_doc, template_exists, blocks_per_row, room_data_list,
                   coordinates_list, model_space, room_i, attempted>>
    /\ UNCHANGED <<merge_vars, flow_vars>>

\* for block_ref, room_number in room_blocks: the element is the entity
\* itself, not a pair, and unpacking it raises; the statement is outside the
\* try of the loop body, so the exception leaves update_all_room_blocks
UpdateUnpack ==
    /\ cad_op = "update_all_room_blocks" /\ cad_pc = "loop"
    /\ room_i <= Len(room_blocks)
    /\ cad_pc' = "raised"
    /\ UNCHANGED <<cad_op, acad_doc, template_exists, blocks_per_row, room_data_list,
                   coordinates_list, model_space, room_blocks, room_i, stats, attempted>>
    /\ UNCHANGED <<merge_vars, flow_vars>>

\* the loop is over: acad_doc.Save() under except (AttributeError, PermissionError)
UpdateSave ==
    /\ cad_op = "update_all_room_blocks" /\ cad_pc = "loop"
    /\ room_i > Len(room_blocks)
    /\ \E outcome \in SaveOutcomes :
          cad_pc' = IF outcome \in {"ok", "AttributeError", "PermissionError"}
                    THEN "returned" ELSE "raised"
    /\ UNCHANGED <<cad_op, acad_doc, template_exists, blocks_per_row, room_data_list,
                   coordinates_list, model_space, room_blocks, room_i, stats, attempted>>
    /\ UNCHANGED <<merge_vars, flow_vars>>

\* the checks before the loop of the two create operations
CreateBegin ==
    /\ cad_op \in {"create_blocks_from_coordinates", "create_blocks_from_template"}
    /\ cad_pc = "start"
    /\ stats' = [created |-> 0, errors |-> 0]
    /\ cad_pc' = IF acad_doc /\ template_exists THEN "loop" ELSE "returned"
    /\ UNCHANGED <<cad_op, acad_doc, template_exists, blocks_per_row, room_data_list,
                   coordinates_list, model_space, room_blocks, room_i, attempted>>
    /\ UNCHANGED <<merge_vars, flow_vars>>

\* the rooms create_blocks_from_coordinates loops over:
\* room_data_list[:len(coordinates_list)]
RoomsWithCoordinate ==
    IF Len(coordinates_list) < Len(room_data_list) THEN Len(coordinates_list)
    ELSE Len(room_data_list)

\* one room of a create loop has given result: it is counted, or the
\* exception leaves the operation
RoomDone(result, caught) ==
    IF result \in Exceptions /\ ~caught
    THEN /\ cad_pc' = "raised"
         /\ attempted' = Append(attempted, <<room_i, "raised">>)
         /\ UNCHANGED <<room_i, stats>>
    ELSE /\ stats' = count_room(stats, result)
         /\ attempted' = Append(attempted,
                                <<room_i, IF result = "True" THEN "created" ELSE "error">>)
         /\ room_i' = room_i + 1
         /\ UNCHANGED cad_pc

\* one iteration of the loop of create_blocks_from_coordinates
CoordinatesRoom ==
    /\ cad_op = "create_blocks_from_coordinates" /\ cad_pc = "loop"
    /\ room_i <= RoomsWithCoordinate
    /\ \E first \in InsertOutcomes, second \in InsertOutcomes, fill \in FillOutcomes :
          LET result == fill_inserted(coordinates_insert(first, second), fill)
          IN  RoomDone(result, coordinates_except(result))
    /\ UNCHANGED <<cad_op, acad_doc, template_exists, blocks_per_row, room_data_list,
                   coordinates_list, model_space, room_blocks>>
    /\ UNCHANGED <<merge_vars, flow_vars>>

\* one iteration of the loop of create_blocks_from_template
TemplateRoom ==
    /\ cad_op = "create_blocks_from_template" /\ cad_pc = "loop"
    /\ room_i <= Len(room_data_list)
    /\ \E first \in InsertOutcomes, second \in InsertOutcomes, fill \in FillOutcomes :
          LET result == IF grid_arithmetic(blocks_per_row) \in Exceptions
                        THEN grid_arithmetic(blocks_per_row)
                        ELSE fill_inserted(template_insert(first, second), fill)
          IN  RoomDone(result, template_except(result))
    /\ UNCHANGED <<cad_op, acad_doc, template_exists, blocks_per_row, room_data_list,
                   coordinates_list, model_space, room_blocks>>
    /\ UNCHANGED <<merge_vars, flow_vars>>

\* the loop of a create operation is over: return stats
CreateReturn ==
    /\ cad_pc = "loop"
    /\ \/ cad_op = "create_blocks_from_coordinates" /\ room_i > RoomsWithCoordinate
       \/ cad_op = "create_blocks_from_template" /\ room_i > Len(room_data_list)
    /\ cad_pc' = "returned"
    /\ UNCHANGED <<cad_op, acad_doc, template_exists, blocks_per_row, room_data_list,
                   coordinates_list, model_space, room_blocks, room_i, stats, attempted>>
    /\ UNCHANGED <<merge_vars, flow_vars>>

CadNext ==
    \/ UpdateBegin \/ UpdateUnpack \/ UpdateSave
    \/ CreateBegin \/ CoordinatesRoom \/ TemplateRoom \/ CreateReturn

SpecCad == CadInit /\ [][CadNext]_vars

(***************************************************************************)
(* The merge as a function of the source list: the loops of                *)
(* read_from_multiple_sources folded over the records and the sources.     *)
(***************************************************************************)
RECURSIVE merge_records(_, _, _)
merge_records(rooms, records, src) ==
    IF records = << >> THEN rooms
    ELSE merge_records(
            merge_room_record(rooms, Head(records), get(src, "name", "unknown"),
                              get(src, "fields", {}), get(src, "priority", 0)),
            Tail(records), src)

RECURSIVE merge_sources(_, _)
merge_sources(rooms, sources) ==
    IF sources = << >> THEN rooms
    ELSE LET src  == Head(sources)
             path == get(src, "file_path", "")
         IN  merge_sources(
                IF path = "" THEN rooms ELSE merge_records(rooms, read_room_data(path), src),
                Tail(sources))

\* the set of records read_from_multiple_sources returns for a source list
merged_records(sources) ==
    LET rooms == merge_sources(<< >>, sources)
    IN  { clean_room(rooms[r]) : r \in DOMAIN rooms }

(***************************************************************************)
(* main (src/main.py): from the check of the configuration file to the     *)
(* call that works on the drawing or on the spreadsheet.  The              *)
(* configuration file is missing, holds text that is not JSON, or holds    *)
(* the configuration; every call main makes on the controller or on the    *)
(* reader is appended to effects.                                          *)
(***************************************************************************)
\* data/sample_hvac_data.xlsx
example_file == "sample_hvac_data.xlsx"

\* self.config after _load_config: the parsed file, or {} when the file is
\* missing or is not JSON; each of the two failures prints one message
_load_config(file) == IF file = "valid" THEN "loaded" ELSE "empty"

\* self.config.get("excel_columns", {})
excel_columns_of(config) == IF config = "loaded" THEN excel_columns ELSE << >>

\* get_excel_files_from_data_folder: the Excel files of the folder data/
get_excel_files_from_data_folder(sample_exists) ==
    { p \in DOMAIN FileSystem :
        /\ endswith(p, ".xlsx") \/ endswith(p, ".xls")
        /\ p # example_file \/ sample_exists }

\* validate_excel_structure: the file can be read and its header row has the
\* columns the configuration names for room_number and room_name
validate_excel_structure(config, excel_path) ==
    LET columns  == excel_columns_of(config)
        required == { columns[f] : f \in {"room_number", "room_name"} \cap DOMAIN columns }
    IN  /\ excel_path \in DOMAIN FileSystem
        /\ endswith(excel_path, ".xlsx") \/ endswith(excel_path, ".xls")
        /\ FileSystem[excel_path].readable
        /\ required \subseteq FileSystem[excel_path].columns

\* read_room_data of a reader with the given configuration: without
\* excel_columns a standard table resolves to no record, while the reader
\* of heat-loss tables does not consult the configuration
ExcelDataReader_read_room_data(config, excel_path) ==
    LET normalized_path == normalize_file_path(excel_path)
    IN  IF config = "loaded" THEN read_room_data(excel_path)
        ELSE IF ~check_file_availability(normalized_path) THEN << >>
        ELSE IF table_type_of[normalized_path] = "heat_loss"
             THEN heat_loss_table_of[normalized_path]
             ELSE << >>

\* the two sources create_data_sources_from_user_input asks for
heat_loss_source(heat_loss_file) ==
    [file_path |-> heat_loss_file, name |-> "heat_loss",
     fields |-> {"room_number", "room_name", "heat_loss", "temperature"},
     priority |-> 1]

air_exchange_source(air_exchange_file) ==
    [file_path |-> air_exchange_file, name |-> "air_exchange",
     fields |-> {"room_number", "room_name", "area", "air_supply", "air_extract",
                 "supply_system", "extract_system", "cleanliness_class", "temperature"},
     priority |-> 2]

\* "#None": the user cancelled the selection of the file
create_data_sources_from_user_input(heat_loss_file, air_exchange_file) ==
    (IF heat_loss_file = "#None" THEN << >> ELSE <<heat_loss_source(heat_loss_file)>>)
    \o (IF air_exchange_file = "#None" THEN << >>
        ELSE <<air_exchange_source(air_exchange_file)>>)

\* validate_multiple_sources: source name -> is_valid
validate_multiple_sources(config, sources) ==
    [name \in {sources[i].name : i \in 1..Len(sources)} |->
        LET src == sources[CHOOSE i \in 1..Len(sources) : sources[i].name = name]
        IN  get(src, "file_path", "") # "" /\ validate_excel_structure(config, src.file_path)]

\* [name for name, is_valid in validation_results.items() if is_valid]
valid_sources(validation_results) ==
    {name \in DOMAIN validation_results : validation_results[name]}

\* the records each source of the list yields, in the order of the list
read_sources(config, sources) ==
    [i \in 1..Len(sources) |->
        IF get(sources[i], "file_path", "") = "" THEN << >>
        ELSE ExcelDataReader_read_room_data(config, sources[i].file_path)]

\* all_room_data after the loop over the sources, given what each yields
RECURSIVE merge_read(_, _, _)
merge_read(rooms, sources, read) ==
    IF sources = << >> THEN rooms
    ELSE merge_read(merge_records(rooms, Head(read), Head(sources)),
                    Tail(sources), Tail(read))

\* the keys of all_room_data in insertion order
RECURSIVE order_records(_, _)
order_records(order, records) ==
    IF records = << >> THEN order
    ELSE LET room_num == room_key(Head(records))
         IN  order_records(
                IF room_num = "" \/ \E n \in 1..Len(order) : order[n] = room_num
                THEN order ELSE Append(order, room_num),
                Tail(records))

RECURSIVE order_read(_, _)
order_read(order, read) ==
    IF read = << >> THEN order
    ELSE order_read(order_records(order, Head(read)), Tail(read))

\* read_from_multiple_sources as a function of the source list
read_from_multiple_sources(config, sources) ==
    LET read == read_sources(config, sources)
    IN  build_merged(merge_read(<< >>, sources, read), order_read(<< >>, read))

\* the files the user can select, "#None" when the selection is cancelled
Selections == get_excel_files_from_data_folder(TRUE) \cup {"#None"}

\* the source lists create_data_sources_from_user_input can return
UserSources ==
    { create_data_sources_from_user_input(heat_loss_file, air_exchange_file) :
        heat_loss_file \in Selections, air_exchange_file \in Selections }

\* what the reader returns for each configuration and file, and what the
\* validation and the merge return for each configuration and source list
room_data_of ==
    Tabulate({"loaded", "empty"} \X DOMAIN FileSystem,
             LAMBDA a : ExcelDataReader_read_room_data(a[1], a[2]))

valid_sources_of ==
    Tabulate({"loaded", "empty"} \X UserSources,
             LAMBDA a : valid_sources(validate_multiple_sources(a[1], a[2])))

merged_data_of ==
    Tabulate({"loaded", "empty"} \X UserSources,
             LAMBDA a : read_from_multiple_sources(a[1], a[2]))

\* the configuration the components of a run hold
config == _load_config(config_file)

\* the calls of main that change the drawing or write a spreadsheet after
\* the data has been read
WriteCalls ==
    {"update_all_room_blocks", "create_blocks_from_template",
     "create_blocks_from_coordinates", "update_excel_with_block_data",
     "save_merged_data_with_block_updates"}

MainInit ==
    /\ MergeIdle
    /\ CadIdle
    /\ ToolsIdle
    /\ config_file \in {"missing", "malformed", "valid"}
    /\ sample_file \in BOOLEAN
    /\ main_pc = "start"
    /\ reports = 0
    /\ effects = << >>
    /\ data_mode = ""
    /\ main_sources = << >>
    /\ main_room_data = << >>

\* if not os.path.exists(config_path): print(...); return
CheckConfig ==
    /\ main_pc = "start"
    /\ IF config_file = "missing"
       THEN reports' = reports + 1 /\ main_pc' = "returned"
       ELSE reports' = reports /\ main_pc' = "init"
    /\ UNCHANGED <<config_file, sample_file, effects, data_mode, main_sources,
                   main_room_data>>
    /\ UNCHANGED <<merge_vars, cad_vars, tool_vars>>

\* ExcelDataReader(config_path); AutoCADController(config_path): each loads
\* the file, and each prints its message when the file is not JSON
InitComponents ==
    /\ main_pc = "init"
    /\ reports' = reports + (IF config_file = "malformed" THEN 2 ELSE 0)
    /\ main_pc' = "connect"
    /\ UNCHANGED <<config_file, sample_file, effects, data_mode, main_sources,
                   main_room_data>>
    /\ UNCHANGED <<merge_vars, cad_vars, tool_vars>>

\* if not autocad_controller.connect_to_autocad(): return
Connect ==
    /\ main_pc = "connect"
    /\ effects' = Append(effects, "connect_to_autocad")
    /\ \E connected \in BOOLEAN :
          main_pc' = IF connected THEN "data" ELSE "returned"
    /\ UNCHANGED <<config_file, sample_file, reports, data_mode, main_sources,
                   main_room_data>>
    /\ UNCHANGED <<merge_vars, cad_vars, tool_vars>>

\* variant: the structure of the file is not checked before it is read
SingleFile_unchecked ==
    /\ main_pc = "data"
    /\ data_mode' = "1"
    /\ \E excel_path \in get_excel_files_from_data_folder(sample_file) \cup {"#None"} :
          IF excel_path = "#None"
          THEN main_pc' = "returned" /\ UNCHANGED <<effects, main_room_data>>
          ELSE /\ main_pc' = "check"
               /\ effects' = Append(effects, "read_room_data")
               /\ main_room_data' = room_data_of[<<config, excel_path>>]
    /\ UNCHANGED <<config_file, sample_file, reports, main_sources>>
    /\ UNCHANGED <<merge_vars, cad_vars, tool_vars>>

\* data_mode == '1': select the file, validate its structure, read it
SingleFile ==
    /\ main_pc = "data"
    /\ data_mode' = "1"
    /\ \E excel_path \in get_excel_files_from_data_folder(sample_file) \cup {"#None"} :
          IF excel_path = "#None"
          THEN main_pc' = "returned" /\ UNCHANGED <<effects, main_room_data>>
          ELSE IF ~validate_excel_structure(config, excel_path)
          THEN /\ main_pc' = "returned"
               /\ effects' = Append(effects, "validate_excel_structure")
               /\ UNCHANGED main_room_data
          ELSE /\ main_pc' = "check"
               /\ effects' = effects \o <<"validate_excel_structure", "read_room_data">>
               /\ main_room_data' = room_data_of[<<config, excel_path>>]
    /\ UNCHANGED <<config_file, sample_file, reports, main_sources>>
    /\ UNCHANGED <<merge_vars, cad_vars, tool_vars>>

\* variant: only the sources that passed the validation are read
sources_to_read_valid(sources, valid) ==
    SelectSeq(sources, LAMBDA src : src.name \in valid)

\* room_data = excel_reader.read_from_multiple_sources(data_sources)
sources_to_read(sources, valid) == sources

\* data_mode == '2': configure the sources, validate them, read and merge
MultipleSources ==
    /\ main_pc = "data"
    /\ data_mode' = "2"
    /\ \E heat_loss_file \in get_excel_files_from_data_folder(sample_file) \cup {"#None"},
          air_exchange_file \in get_excel_files_from_data_folder(sample_file) \cup {"#None"} :
          LET sources == create_data_sources_from_user_input(heat_loss_file,
                                                             air_exchange_file)
              valid   == valid_sources_of[<<config, sources>>]
          IN  /\ main_sources' = sources
              /\ IF sources = << >>
                 THEN main_pc' = "returned" /\ UNCHANGED <<effects, main_room_data>>
                 ELSE IF valid = {}
                 THEN /\ main_pc' = "returned"
                      /\ effects' = Append(effects, "validate_multiple_sources")
                      /\ UNCHANGED main_room_data
                 ELSE /\ main_pc' = "check"
                      /\ effects' = effects \o <<"validate_multiple_sources",
                                                 "read_from_multiple_sources">>
                      /\ main_room_data' =
                            merged_data_of[<<config, sources_to_read(sources, valid)>>]
    /\ UNCHANGED <<config_file, sample_file, reports>>
    /\ UNCHANGED <<merge_vars, cad_vars, tool_vars>>

\* data_mode == '3': the example file, a file of the folder data/, or a new
\* example file written by create_sample_excel, which may fail
SampleData ==
    /\ main_pc = "data"
    /\ data_mode' = "3"
    /\ \E use_existing \in BOOLEAN, created \in BOOLEAN,
          selected \in get_excel_files_from_data_folder(sample_file) \cup {"#None"} :
          LET creates    == ~sample_file /\ ~use_existing
              excel_path == IF sample_file \/ ~use_existing THEN example_file ELSE selected
              exists     == IF excel_path = example_file
                            THEN sample_file \/ (creates /\ created)
                            ELSE excel_path # "#None"
              written    == IF creates /\ created THEN <<"create_sample_excel">> ELSE << >>
          IN  /\ sample_file' = (sample_file \/ (creates /\ created))
              /\ IF ~exists
                 THEN /\ main_pc' = "returned"
                      /\ effects' = effects \o written
                      /\ UNCHANGED main_room_data
                 ELSE /\ main_pc' = "check"
                      /\ effects' = effects \o written \o <<"read_room_data">>
                      /\ main_room_data' = room_data_of[<<config, excel_path>>]
    /\ UNCHANGED <<config_file, reports, main_sources>>
    /\ UNCHANGED <<merge_vars, cad_vars, tool_vars>>

\* variant: the run goes on without data
CheckData_continue ==
    /\ main_pc = "check"
    /\ main_pc' = "work"
    /\ UNCHANGED <<config_file, sample_file, reports, effects, data_mode, main_sources,
                   main_room_data>>
    /\ UNCHANGED <<merge_vars, cad_vars, tool_vars>>

\* if not room_data: print(...); return
CheckData ==
    /\ main_pc = "check"
    /\ main_pc' = IF main_room_data = << >> THEN "returned" ELSE "work"
    /\ UNCHANGED <<config_file, sample_file, reports, effects, data_mode, main_sources,
                   main_room_data>>
    /\ UNCHANGED <<merge_vars, cad_vars, tool_vars>>

\* the end of main: a call that works on the drawing or on a spreadsheet,
\* or none when the user cancels
Work(calls) ==
    /\ main_pc = "work"
    /\ main_pc' = "returned"
    /\ \E call \in calls :
          effects' = IF call = "none" THEN effects ELSE Append(effects, call)
    /\ UNCHANGED <<config_file, sample_file, reports, data_mode, main_sources,
                   main_room_data>>
    /\ UNCHANGED <<merge_vars, cad_vars, tool_vars>>

\* existing room blocks, mode == '1'
UpdateMode == Work({"update_all_room_blocks"})

\* no room block in the drawing, or mode == '2': create_new_blocks, which the
\* user may cancel and which places the blocks on a grid or at coordinates
CreateMode ==
    Work({"none", "create_blocks_from_template", "create_blocks_from_coordinates"})

\* existing room blocks, mode == '3': import_data_from_blocks, which writes
\* nothing when no block could be read
ImportMode ==
    Work({"none", IF data_mode = "2" THEN "save_merged_data_with_block_updates"
                  ELSE "update_excel_with_block_data"})

\* existing room blocks, mode == '4'
CancelMode == Work({"none"})

MainNext ==
    \/ CheckConfig \/ InitComponents \/ Connect
    \/ SingleFile \/ MultipleSources \/ SampleData
    \/ CheckData
    \/ UpdateMode \/ CreateMode \/ ImportMode \/ CancelMode

SpecMain == MainInit /\ [][MainNext]_vars

(***************************************************************************)
(* Vocabulary of the properties.                                           *)
(***************************************************************************)
SourceIdx == 1..Len(data_sources)

PathOf(src) == get(src, "file_path", "")
PrioOf(src) == get(src, "priority", 0)

\* the resolved records a source contributes
RecordsOf(src) == IF PathOf(src) = "" THEN << >> ELSE read_room_data(PathOf(src))

Permitted(src, f) == get(src, "fields", {}) = {} \/ f \in get(src, "fields", {})

EmptyOrZero == {"", "#0", "#0.0", "#-0.0", "#None"}

\* the values src supplies for field f of room r: permitted, non-empty, non-zero
SuppliedValues(src, r, f) ==
    { RecordsOf(src)[j][f] : j \in { j \in 1..Len(RecordsOf(src)) :
          /\ RecordsOf(src)[j]["room_number"] = r
          /\ f \in DOMAIN RecordsOf(src)[j]
          /\ f # "room_number"
          /\ Permitted(src, f)
          /\ RecordsOf(src)[j][f] \notin EmptyOrZero } }

Supplies(src, r, f) == SuppliedValues(src, r, f) # {}

DataFields == DOMAIN excel_columns \ {"room_number"}

MergedSet == { merged_data[i] : i \in 1..Len(merged_data) }

(***************************************************************************)
(* C1: for every room and every non-key field, the final merged value is   *)
(* the one supplied by the highest-priority source among the sources that  *)
(* are permitted to set the field and supply a non-empty, non-zero value.  *)
(***************************************************************************)
C1_HighestPriorityWins ==
    pc = "done" =>
        \A rec \in MergedSet : \A f \in DataFields :
            LET r   == rec["room_number"]
                S   == { k \in SourceIdx : Supplies(data_sources[k], r, f) }
                top == { k \in S : \A m \in S : PrioOf(data_sources[m]) <= PrioOf(data_sources[k]) }
            IN  /\ f \in DOMAIN rec <=> S # {}
                /\ f \in DOMAIN rec =>
                      \E k \in top : rec[f] \in SuppliedValues(data_sources[k], r, f)

(***************************************************************************)
(* C2: for sources whose priorities are pairwise distinct the merged       *)
(* records are the same for every permutation of the source list.          *)
(***************************************************************************)
SourceOrders == { p \in [SourceIdx -> SourceIdx] : \A i, j \in SourceIdx : p[i] = p[j] => i = j }

DistinctPriorities ==
    \A i, j \in SourceIdx :
        i # j => PrioOf(data_sources[i]) # PrioOf(data_sources[j])

C2_OrderIndependent ==
    (pc = "done" /\ DistinctPriorities) =>
        \A p \in SourceOrders :
            merged_records([i \in SourceIdx |-> data_sources[p[i]]]) = MergedSet

(***************************************************************************)
(* C3: when two sources of the same priority (any integer) both supply a   *)
(* value for the same field of the same room, and no other source does,    *)
(* the merged value is the value of the source that comes later.           *)
(***************************************************************************)
C3_LaterWinsTie ==
    pc = "done" =>
        \A i, j \in SourceIdx : \A rec \in MergedSet : \A f \in DataFields :
            ( /\ i < j
              /\ PrioOf(data_sources[i]) = PrioOf(data_sources[j])
              /\ Supplies(data_sources[i], rec["room_number"], f)
              /\ Supplies(data_sources[j], rec["room_number"], f)
              /\ \A k \in SourceIdx \ {i, j} :
                    ~Supplies(data_sources[k], rec["room_number"], f) )
            => ( f \in DOMAIN rec
                 /\ rec[f] \in SuppliedValues(data_sources[j], rec["room_number"], f) )

(***************************************************************************)
(* C4: merging a source whose allowed-field list is non-empty never        *)
(* creates or changes, in any merged record, a field that is not in that   *)
(* list; every field outside the list keeps the value it had.              *)
(* As stated, the key room_number counts as a field: C4_OnlyAllowedFields. *)
(* Amended to the fields other than room_number, with the room_number of   *)
(* an existing record unchanged: C4_OnlyAllowedDataFields.                 *)
(***************************************************************************)
\* field k of room r is the same before and after the step
SameField(r, k) ==
    /\ r \in DOMAIN all_room_data <=> r \in DOMAIN all_room_data'
    /\ r \in DOMAIN all_room_data =>
          /\ k \in DOMAIN all_room_data[r].data <=> k \in DOMAIN all_room_data'[r].data
          /\ k \in DOMAIN all_room_data[r].data =>
                all_room_data'[r].data[k] = all_room_data[r].data[k]

\* field k of room r is absent or unchanged after the step
KeptField(r, k) ==
    IF r \in DOMAIN all_room_data
    THEN /\ r \in DOMAIN all_room_data'
         /\ k \in DOMAIN all_room_data[r].data <=> k \in DOMAIN all_room_data'[r].data
         /\ k \in DOMAIN all_room_data[r].data =>
               all_room_data'[r].data[k] = all_room_data[r].data[k]
    ELSE r \in DOMAIN all_room_data' => k \notin DOMAIN all_room_data'[r].data

RoomsAround == DOMAIN all_room_data \cup DOMAIN all_room_data'

C4_OnlyAllowedFields ==
    [][ (pc = "records" /\ allowed_fields # {}) =>
            \A r \in RoomsAround : \A k \in DOMAIN excel_columns \ allowed_fields :
                KeptField(r, k) ]_vars

C4_OnlyAllowedDataFields ==
    [][ (pc = "records" /\ allowed_fields # {}) =>
            /\ \A r \in RoomsAround : \A k \in DataFields \ allowed_fields :
                  KeptField(r, k)
            /\ \A r \in DOMAIN all_room_data : SameField(r, "room_number") ]_vars

\* a source with an allow-list has merged a row that carries a value for a field
\* outside the list, into a room whose record does not hold that value
C4_Witness ==
    /\ pc = "records" /\ rec_idx > 1 /\ allowed_fields # {}
    /\ LET rec == source_data[rec_idx - 1]
       IN  /\ rec["room_number"] \in DOMAIN all_room_data
           /\ \E k \in DOMAIN rec \ ({"room_number"} \cup allowed_fields) :
                 /\ rec[k] \notin EmptyOrZero
                 /\ get(all_room_data[rec["room_number"]].data, k, "") # rec[k]
                 /\ k \in DOMAIN all_room_data[rec["room_number"]].data

(***************************************************************************)
(* C5: a value that is empty string, 0, 0.0 or absent is "not provided":   *)
(* merging it never overwrites an existing merged value, never creates the *)
(* field, and no merged record ever holds an empty or zero value for a     *)
(* non-key field.                                                          *)
(***************************************************************************)
NoEmptyOrZero(rooms) ==
    \A r \in DOMAIN rooms : \A k \in DOMAIN rooms[r].data \ {"room_number"} :
        rooms[r].data[k] \notin EmptyOrZero

C5_NotProvidedSkipped ==
    [][ /\ NoEmptyOrZero(all_room_data')
        /\ \A i \in 1..Len(merged_data') : \A k \in DOMAIN merged_data'[i] \ {"room_number"} :
              merged_data'[i][k] \notin EmptyOrZero
        /\ (pc = "records" /\ rec_idx <= Len(source_data)) =>
              \A k \in DataFields :
                  get(source_data[rec_idx], k, "#None") \in EmptyOrZero
                      => KeptField(source_data[rec_idx]["room_number"], k) ]_vars

\* a zero heat_loss of a higher-priority source has been merged into a room that
\* holds a heat_loss set at a lower priority
C5_Witness ==
    /\ pc = "records" /\ rec_idx > 1
    /\ LET rec == source_data[rec_idx - 1]
           r   == rec["room_number"]
       IN  /\ "heat_loss" \in DOMAIN rec
           /\ rec["heat_loss"] = "#0.0"
           /\ Permitted(source, "heat_loss")
           /\ r \in DOMAIN all_room_data
           /\ "heat_loss" \in DOMAIN all_room_data[r].data
           /\ all_room_data[r]._priority["heat_loss"] < priority

(***************************************************************************)
(* C6: scenario A.  source1 (priority 1, fields heat_loss and temperature) *)
(* gives room 101 heat_loss 1200 and temperature 22; source2 (priority 2,  *)
(* fields area and heat_loss) gives room 101 area 25.5 and heat_loss 0.    *)
(* The merged record of 101 has heat_loss 1200, temperature 22, area 25.5. *)
(***************************************************************************)
ScenarioA ==
    << [name |-> "heat", file_path |-> "heat.xlsx",
        fields |-> {"heat_loss", "temperature"}, priority |-> 1],
       [name |-> "air", file_path |-> "air.xlsx",
        fields |-> {"area", "heat_loss"}, priority |-> 2] >>

Room101 == { rec \in MergedSet : rec["room_number"] = "101" }

C6_ScenarioA ==
    (pc = "done" /\ data_sources = ScenarioA) =>
        Room101 = { [k \in {"room_number", "heat_loss", "temperature", "area"} |->
                       CASE k = "room_number" -> "101"
                         [] k = "heat_loss"   -> "#1200.0"
                         [] k = "temperature" -> "#22.0"
                         [] k = "area"        -> "#25.5"] }

C6_Witness ==
    /\ pc = "done" /\ data_sources = ScenarioA
    /\ source_stats["air"].rooms = 2
    /\ source_stats["heat"].rooms = 2

(***************************************************************************)
(* C7: the output holds exactly one record for each distinct stripped,     *)
(* non-empty room_number of the records of the loaded sources, and no two  *)
(* output records share a room_number.                                     *)
(***************************************************************************)
RoomNumbersOf(src) ==
    { strip(RecordsOf(src)[j]["room_number"]) : j \in 1..Len(RecordsOf(src)) } \ {""}

AllRoomNumbers == UNION { RoomNumbersOf(data_sources[i]) : i \in SourceIdx }

C7_OneRecordPerRoom ==
    pc = "done" =>
        /\ { get(rec, "room_number", "") : rec \in MergedSet } = AllRoomNumbers
        /\ Len(merged_data) = Cardinality(AllRoomNumbers)
        /\ \A i, j \in 1..Len(merged_data) :
              get(merged_data[i], "room_number", "") = get(merged_data[j], "room_number", "")
                  => i = j

\* two loaded sources mention room 101 and the output holds the three rooms
C7_Witness ==
    /\ pc = "done" /\ Len(data_sources) = 2
    /\ "101" \in RoomNumbersOf(data_sources[1]) \cap RoomNumbersOf(data_sources[2])
    /\ RoomNumbersOf(data_sources[1]) # RoomNumbersOf(data_sources[2])
    /\ Len(merged_data) = 3

(***************************************************************************)
(* C8: a record whose room_number is empty or only whitespace after        *)
(* resolution never appears in the merged output and contributes no field  *)
(* to any merged record; every output record has a non-empty room_number.  *)
(***************************************************************************)
RECURSIVE IsBlank(_)
IsBlank(s) == Len(s) = 0 \/ (SubSeq(s, 1, 1) = " " /\ IsBlank(SubSeq(s, 2, Len(s))))

\* the rows of the table a source reads
TableType(src) ==
    LET path == normalize_file_path(PathOf(src))
    IN  IF PathOf(src) # "" /\ check_file_availability(path)
        THEN table_type_of[path] ELSE "none"

\* a source read as a standard table has the rows under its header row
TableRows(src) ==
    LET path == normalize_file_path(PathOf(src))
    IN  IF /\ TableType(src) = "standard"
           /\ excel_columns["room_number"] \in FileSystem[path].columns
        THEN FileSystem[path].rows ELSE << >>

\* a source read as a heat-loss table has the rows from row 20 on
LossRows(src) ==
    LET sheet == read_excel_raw(normalize_file_path(PathOf(src)))
    IN  IF TableType(src) = "heat_loss" THEN SubSeq(sheet, skiprows + 1, Len(sheet))
        ELSE << >>

\* the rows of a source whose room cell is empty, NaN or only whitespace
BlankRows(src) ==
    { TableRows(src)[j] : j \in { j \in 1..Len(TableRows(src)) :
          isna(TableRows(src)[j]["Room"]) \/ IsBlank(str(TableRows(src)[j]["Room"])) } }

\* the values of field k in the rows of src that have a room number
RoomedValues(src, k) ==
    { CoerceCell(k, TableRows(src)[j][excel_columns[k]]) :
        j \in { j \in 1..Len(TableRows(src)) :
                  /\ TableRows(src)[j] \notin BlankRows(src)
                  /\ excel_columns[k] \in DOMAIN TableRows(src)[j] } }

\* the values of field k in the heat-loss rows of src that have a room number
LossValues(src, k) ==
    { heat_loss_record(LossRows(src)[j])[k] :
        j \in { j \in 1..Len(LossRows(src)) :
                  /\ ~isna(LossRows(src)[j][1])
                  /\ ~IsBlank(str(LossRows(src)[j][1]))
                  /\ heat_loss_record(LossRows(src)[j]) # None
                  /\ k \in DOMAIN heat_loss_record(LossRows(src)[j]) } }

C8_NoEmptyRoomNumber ==
    /\ \A r \in DOMAIN all_room_data :
          ~IsBlank(r) /\ all_room_data[r].data["room_number"] = r
    /\ pc = "done" =>
          \A rec \in MergedSet :
              /\ "room_number" \in DOMAIN rec
              /\ ~IsBlank(rec["room_number"])
              /\ \A k \in DOMAIN rec \ {"room_number"} :
                    \E i \in SourceIdx :
                        rec[k] \in RoomedValues(data_sources[i], k)
                                       \cup LossValues(data_sources[i], k)

\* a table with a whitespace-only room cell has been read and merged
C8_Witness ==
    /\ pc = "done"
    /\ \E i \in SourceIdx :
          /\ BlankRows(data_sources[i]) # {}
          /\ \E row \in BlankRows(data_sources[i]) : ~isna(row["Room"])
          /\ get(data_sources[i], "name", "") \in DOMAIN source_stats
          /\ source_stats[get(data_sources[i], "name", "")].rooms > 0

(***************************************************************************)
(* C9: a source whose file fails to load contributes nothing and does not  *)
(* stop the merge: every valid source is still processed and the merged    *)
(* records are those of the source list without the failed sources.        *)
(***************************************************************************)
\* the source names a file and reading it yields no record
FailsToLoad(src) == PathOf(src) # "" /\ RecordsOf(src) = << >>

Loads(src) == PathOf(src) # "" /\ RecordsOf(src) # << >>

C9_FailedSourceSkipped ==
    pc = "done" =>
        /\ MergedSet = merged_records(SelectSeq(data_sources, LAMBDA src : ~FailsToLoad(src)))
        /\ \A i \in SourceIdx :
              Loads(data_sources[i]) =>
                  /\ get(data_sources[i], "name", "") \in DOMAIN source_stats
                  /\ source_stats[get(data_sources[i], "name", "")].rooms > 0

\* a failed source came before a valid one, whose rooms are in the output
C9_Witness ==
    /\ pc = "done" /\ Len(data_sources) = 2
    /\ FailsToLoad(data_sources[1])
    /\ Loads(data_sources[2])
    /\ Len(merged_data) = 2

(***************************************************************************)
(* C10: merging an empty source list, or a list in which every source      *)
(* lacks a file or fails to load, returns an empty merged set as a normal  *)
(* result: the run ends in "done" and no step fails.                       *)
(***************************************************************************)
NothingLoads ==
    \A i \in SourceIdx : PathOf(data_sources[i]) = "" \/ FailsToLoad(data_sources[i])

C10_EmptyResult ==
    NothingLoads =>
        /\ pc \in {"sources", "done"}
        /\ all_room_data = << >>
        /\ merged_data = << >>
        /\ pc = "done" \/ ENABLED Next

\* a source without a file and a source that fails to load, merged to nothing
C10_Witness ==
    /\ pc = "done" /\ NothingLoads
    /\ Len(data_sources) = 2
    /\ \E i \in SourceIdx : PathOf(data_sources[i]) = ""
    /\ \E i \in SourceIdx : FailsToLoad(data_sources[i])
    /\ merged_data = << >>

(***************************************************************************)
(* C11: a source with no file reference, like a source whose load fails,   *)
(* is recorded in the summary statistics as an entry with zero rooms and   *)
(* zero fields added, and the merge goes on with the remaining sources.    *)
(***************************************************************************)
NameOf(src) == get(src, "name", "unknown")

ZeroEntry == [rooms |-> 0, fields_added |-> 0]

\* the sources before position n that bear the name of src and load records
LoadedNamesake(src, n) ==
    \E j \in 1..(n - 1) : NameOf(data_sources[j]) = NameOf(src) /\ Loads(data_sources[j])

C11_NoFileSourceRecorded ==
    /\ pc = "sources" =>
          \A i \in 1..(src_idx - 1) :
              /\ i <= Len(data_sources)
              /\ PathOf(data_sources[i]) = "" \/ FailsToLoad(data_sources[i])
              /\ ~LoadedNamesake(data_sources[i], src_idx)
              => /\ NameOf(data_sources[i]) \in DOMAIN source_stats
                 /\ source_stats[NameOf(data_sources[i])] = ZeroEntry
    /\ pc = "done" =>
          \A i \in SourceIdx :
              Loads(data_sources[i]) => NameOf(data_sources[i]) \in DOMAIN source_stats

(***************************************************************************)
(* C12: a row in which a numeric field holds non-numeric text is still     *)
(* resolved: that field degrades to 0.0, the other fields are resolved as  *)
(* usual, the row is not dropped and no error leaves the reader.           *)
(***************************************************************************)
\* the fields of the mapping whose column the row has
PresentFields(row) == {f \in DOMAIN excel_columns : excel_columns[f] \in DOMAIN row}

\* field f of the row is numeric-designated and holds text that is no number
NonNumericText(row, f) ==
    /\ f \in NumericFields
    /\ ~isna(row[excel_columns[f]])
    /\ row[excel_columns[f]] # ""
    /\ FloatRaises(row[excel_columns[f]])

\* the record of the row with every non-numeric text degraded to 0.0
DegradedRecord(row) ==
    [f \in PresentFields(row) |->
        IF NonNumericText(row, f) THEN "#0.0" ELSE CoerceCell(f, row[excel_columns[f]])]

\* the rows of the current source that have a room number and a non-numeric text
NonNumericRows ==
    { TableRows(source)[j] : j \in { j \in 1..Len(TableRows(source)) :
          /\ TableRows(source)[j] \notin BlankRows(source)
          /\ \E f \in PresentFields(TableRows(source)[j]) :
                NonNumericText(TableRows(source)[j], f) } }

C12_NonNumericDegraded ==
    pc = "records" =>
        \A row \in NonNumericRows :
            \E j \in 1..Len(source_data) : source_data[j] = DegradedRecord(row)

(***************************************************************************)
(* C13: in a resolved row, a numeric field whose cell is blank or missing  *)
(* (an empty or NaN cell under a present column) is set to 0.0, and a      *)
(* blank field that is not numeric is set to the empty string.             *)
(***************************************************************************)
\* an empty or NaN cell
BlankCell(v) == isna(v) \/ v = ""

\* the rows of the current source that resolve to a record, in table order
ResolvableRowsOf(src) ==
    SelectSeq(TableRows(src),
              LAMBDA row : /\ row \notin BlankRows(src)
                           /\ \A f \in PresentFields(row) : ~NonNumericText(row, f))

ResolvableRows == ResolvableRowsOf(source)

BlankDefault(f) == IF f \in NumericFields THEN "#0.0" ELSE ""

C13_BlankDefaults ==
    pc = "records" =>
        \A n \in 1..Len(ResolvableRows) :
            \A f \in PresentFields(ResolvableRows[n]) \ {"room_number"} :
                BlankCell(ResolvableRows[n][excel_columns[f]]) =>
                    \E j \in 1..Len(source_data) :
                        /\ source_data[j]["room_number"] =
                               strip(str(ResolvableRows[n][excel_columns["room_number"]]))
                        /\ source_data[j][f] = BlankDefault(f)

(***************************************************************************)
(* C14: a row whose room_number is empty after coercion resolves to None   *)
(* without an error, and the reader skips exactly that row: the records    *)
(* read from a source are those of its other resolvable rows, in the       *)
(* order of the table.                                                     *)
(***************************************************************************)
\* the records of the resolvable rows of a source, in the order of the table
ResolvedRows(src) ==
    [n \in 1..Len(ResolvableRowsOf(src)) |->
        [f \in PresentFields(ResolvableRowsOf(src)[n]) |->
            CoerceCell(f, ResolvableRowsOf(src)[n][excel_columns[f]])]]

resolved_rows_of == Tabulate(Sources, ResolvedRows)

blank_rows_of == Tabulate(Sources, BlankRows)

C14_EmptyRoomRowSkipped ==
    pc = "records" /\ TableType(source) = "standard" =>
        /\ \A row \in blank_rows_of[source] : _extract_room_info(row) = None
        /\ source_data = resolved_rows_of[source]

\* a table with an empty room cell between two resolvable rows has been read
C14_Witness ==
    /\ pc = "records"
    /\ Len(source_data) = 2
    /\ \E n \in 2..(Len(TableRows(source)) - 1) :
          /\ TableRows(source)[n] \in BlankRows(source)
          /\ ~isna(TableRows(source)[n]["Room"])
          /\ TableRows(source)[n - 1] = ResolvableRows[1]
          /\ TableRows(source)[n + 1] = ResolvableRows[2]

(***************************************************************************)
(* C16: no record returned by read_from_multiple_sources carries the       *)
(* provenance bookkeeping (_sources, _priority) or any other key that      *)
(* begins with "_": an output record has room_number and data fields only. *)
(***************************************************************************)
C16_NoBookkeepingInOutput ==
    pc = "done" =>
        \A n \in 1..Len(merged_data) :
            /\ "room_number" \in DOMAIN merged_data[n]
            /\ \A k \in DOMAIN merged_data[n] :
                  /\ SubSeq(k, 1, 1) # "_"
                  /\ k \in {"room_number"} \cup DataFields

\* a room with recorded provenance has been returned with a data field
C16_Witness ==
    /\ pc = "done"
    /\ \E n \in 1..Len(merged_data) :
          /\ DOMAIN merged_data[n] \cap DataFields # {}
          /\ merged_data[n]["room_number"] \in DOMAIN all_room_data
          /\ DOMAIN all_room_data[merged_data[n]["room_number"]]._sources # {}
          /\ DOMAIN all_room_data[merged_data[n]["room_number"]]._priority # {}

(***************************************************************************)
(* C17: detect_table_type returns the heat-loss shape whenever the marker  *)
(* term occurs in any cell of the first 25 rows it scans, whatever the     *)
(* column and whatever header synonym an earlier row holds, and returns    *)
(* "standard" only when no scanned cell holds the marker.                  *)
(***************************************************************************)
\* some cell of the first 25 rows of the sheet holds the marker term
MarkerInSample(excel_path) ==
    LET sheet == read_excel_raw(excel_path)
    IN  \E n \in 1..Len(sheet) :
            /\ n <= SampleRows
            /\ \E c \in 1..Len(sheet[n]) :
                  Contains("teplopoter", lower(str(sheet[n][c])))

marker_in_sample_of == Tabulate(DOMAIN FileSystem, MarkerInSample)

C17_MarkerAnywhereDetected ==
    \A i \in SourceIdx :
        i < src_idx /\ TableType(data_sources[i]) # "none" =>
            TableType(data_sources[i]) =
                IF marker_in_sample_of[normalize_file_path(PathOf(data_sources[i]))]
                THEN "heat_loss" ELSE "standard"

(***************************************************************************)
(* C18: update_all_room_blocks processes every room block that             *)
(* find_room_blocks returns: no exception escapes, and on return           *)
(* updated + not_found + errors is the number of room blocks found.        *)
(***************************************************************************)
C18_EveryRoomBlockCounted ==
    cad_op = "update_all_room_blocks" =>
        /\ cad_pc # "raised"
        /\ cad_pc = "returned" =>
              stats.updated + stats.not_found + stats.errors = Len(room_blocks)

(***************************************************************************)
(* C19: in create_blocks_from_coordinates, with the document connected and *)
(* the template present, a failed insertion or attribute fill of one room, *)
(* whatever the connector error, is counted as one error and the later     *)
(* rooms are still attempted: the call returns, with created + errors the  *)
(* number of rooms that have a coordinate.                                 *)
(***************************************************************************)
\* the number of attempted rooms with the given outcome
Outcomes(kind) == Cardinality({n \in 1..Len(attempted) : attempted[n][2] = kind})

\* the rooms 1..n have been attempted once each, in this order, and counted
AttemptedInOrder ==
    /\ Len(attempted) = room_i - 1
    /\ \A n \in 1..Len(attempted) :
          attempted[n][1] = n /\ attempted[n][2] \in {"created", "error"}
    /\ stats.created = Outcomes("created")
    /\ stats.errors = Outcomes("error")

C19_CoordinateFailuresCounted ==
    /\ cad_op = "create_blocks_from_coordinates"
    /\ acad_doc /\ template_exists
    /\ cad_pc # "start"
    => /\ cad_pc # "raised"
       /\ AttemptedInOrder
       /\ cad_pc = "returned" => stats.created + stats.errors = RoomsWithCoordinate

(***************************************************************************)
(* C20: in create_blocks_from_template, with the document connected and    *)
(* the template present, every room of the input list is attempted exactly *)
(* once, in list order; a failure of any kind for a room is counted as one *)
(* error and does not stop the later rooms; on return created + errors is  *)
(* the number of input rooms.                                              *)
(***************************************************************************)
C20_TemplateFailuresCounted ==
    /\ cad_op = "create_blocks_from_template"
    /\ acad_doc /\ template_exists
    /\ cad_pc # "start"
    => /\ cad_pc # "raised"
       /\ AttemptedInOrder
       /\ cad_pc = "returned" =>
             /\ Len(attempted) = Len(room_data_list)
             /\ stats.created + stats.errors = Len(room_data_list)

\* the first of two rooms failed and the second was still created
C20_Witness ==
    /\ cad_op = "create_blocks_from_template"
    /\ acad_doc /\ template_exists
    /\ cad_pc = "returned"
    /\ attempted = << <<1, "error">>, <<2, "created">> >>
    /\ stats = [created |-> 1, errors |-> 1]

(***************************************************************************)
(* C21: a missing or malformed configuration file is fatal to startup: the *)
(* run prints the error once and then reads no data, makes no connection   *)
(* to the drawing and writes nothing.                                      *)
(***************************************************************************)
C21_ConfigErrorFatal ==
    config_file \in {"missing", "malformed"} =>
        /\ reports <= 1
        /\ effects = << >>
        /\ main_pc \notin {"data", "check", "work"}
        /\ main_pc = "returned" => reports = 1

(***************************************************************************)
(* C22: when the data reading (one file, the example file or the merge of  *)
(* several sources) yields no room record, main returns: no update of      *)
(* block attributes, no insertion of blocks and no save of the drawing or  *)
(* of a spreadsheet follows the reading.  (The example file that           *)
(* create_sample_excel may write is written before the reading.)           *)
(***************************************************************************)
ReadCalls == {"read_room_data", "read_from_multiple_sources"}

\* the data has been read and holds no record
NoDataRead ==
    /\ \E n \in 1..Len(effects) : effects[n] \in ReadCalls
    /\ main_room_data = << >>

C22_NoDataAborts ==
    NoDataRead =>
        /\ main_pc \in {"check", "returned"}
        /\ \A n \in 1..Len(effects) : effects[n] \notin WriteCalls

\* the merge of two sources that passed the validation gave no record, and
\* main has returned
C22_Witness ==
    /\ NoDataRead
    /\ main_pc = "returned"
    /\ data_mode = "2"
    /\ Len(main_sources) = 2
    /\ config_file = "valid"

(***************************************************************************)
(* C26: in the multi-source mode of main, when some of the configured      *)
(* sources fail validate_multiple_sources, only the sources that passed    *)
(* are used: the merged data is the merge of the valid sources alone, so a *)
(* source that failed the validation contributes no record and no field.   *)
(***************************************************************************)
\* the names of the configured sources that passed the validation
ValidNames == valid_sources_of[<<config, main_sources>>]

\* the multi-source mode has validated and read its sources
MultipleRead ==
    /\ data_mode = "2"
    /\ \E n \in 1..Len(effects) : effects[n] = "read_from_multiple_sources"

C26_OnlyValidSourcesUsed ==
    MultipleRead =>
        main_room_data =
            merged_data_of[<<config, sources_to_read_valid(main_sources, ValidNames)>>]

(***************************************************************************)
(* C24: when the record being merged supplies a permitted, non-empty,      *)
(* non-zero value for a field that the merged record of its room does not  *)
(* hold yet (or the room has no merged record yet), the step sets the      *)
(* field to that value and records the source's priority, whatever that    *)
(* priority is, also below -1.                                             *)
(***************************************************************************)
\* the merged record of room r does not hold field f
FieldAbsent(r, f) ==
    r \notin DOMAIN all_room_data \/ f \notin DOMAIN all_room_data[r].data

C24_AbsentFieldAlwaysSet ==
    [][ (pc = "records" /\ rec_idx <= Len(source_data)) =>
          LET room_record == source_data[rec_idx]
              r           == strip(str(get(room_record, "room_number", "")))
          IN  r # "" =>
                \A f \in DOMAIN room_record \ {"room_number"} :
                    ( /\ Permitted(data_sources[src_idx], f)
                      /\ room_record[f] \notin EmptyOrZero
                      /\ FieldAbsent(r, f) )
                    => /\ r \in DOMAIN all_room_data'
                       /\ f \in DOMAIN all_room_data'[r].data
                       /\ all_room_data'[r].data[f] = room_record[f]
                       /\ all_room_data'[r]._priority[f] = PrioOf(data_sources[src_idx])
      ]_vars

\* the second source, of priority -2, has added a field to a room record
\* that an earlier source of higher priority had created
C24_Witness ==
    /\ pc = "records"
    /\ src_idx = 2
    /\ PrioOf(data_sources[2]) = -2
    /\ \E r \in DOMAIN all_room_data :
         \E f, g \in DOMAIN all_room_data[r]._priority :
            /\ all_room_data[r]._priority[f] = -2
            /\ all_room_data[r]._priority[g] > -1

(***************************************************************************)
(* C25: the merge is one sequential pass.  Before every step the merge     *)
(* mapping is the result of merging, in list order, all the records of the *)
(* sources before the current one and then, in row order, the records of   *)
(* the current source before the current row; a step moves to the next     *)
(* source only after the last record of the current one, the mapping       *)
(* changes only in the step that merges the current record, and the source *)
(* list and the records read are not changed meanwhile.                    *)
(***************************************************************************)
\* the mapping after the sources before src_idx and, inside a source, the
\* records before rec_idx
PassPrefix ==
    LET before == merge_sources(<< >>, SubSeq(data_sources, 1, src_idx - 1))
    IN  IF pc = "records"
        THEN merge_records(before, SubSeq(source_data, 1, rec_idx - 1),
                           data_sources[src_idx])
        ELSE before

PassStep ==
    /\ data_sources' = data_sources
    /\ src_idx' \in {src_idx, src_idx + 1}
    /\ src_idx' # src_idx =>
          /\ all_room_data' = all_room_data
          /\ pc = "records" => rec_idx = Len(source_data) + 1
    /\ (pc = "records" /\ pc' = "records") =>
          /\ rec_idx' = rec_idx + 1
          /\ source_data' = source_data
    /\ all_room_data' # all_room_data =>
          /\ pc = "records" /\ pc' = "records"
          /\ all_room_data' =
                merge_records(all_room_data, <<source_data[rec_idx]>>,
                              data_sources[src_idx])
    /\ (pc = "sources" /\ pc' = "records") =>
          /\ rec_idx' = 1
          /\ source_data' = RecordsOf(data_sources[src_idx])

C25_SequentialPass == [][all_room_data = PassPrefix /\ PassStep]_vars

\* the pass is inside the second source: its first record has been merged and
\* changed the mapping the first source had left, and records remain
C25_Witness ==
    /\ pc = "records"
    /\ src_idx = 2
    /\ rec_idx = 2
    /\ Len(source_data) >= 2
    /\ all_room_data # merge_sources(<< >>, SubSeq(data_sources, 1, 1))
    /\ merge_sources(<< >>, SubSeq(data_sources, 1, 1)) # << >>

(***************************************************************************)
(* C30: the records read from a heat-loss table are, in row order, one     *)
(* record for every row from row 20 on that holds a room number and a room *)
(* name, also for the rows after a row that lacks one of them.  Each       *)
(* record has exactly the fields room_number and room_name (the stripped,  *)
(* non-empty texts of the first two columns), heat_loss (the number of     *)
(* column S, 0.0 when that cell is blank or not numeric) and temperature   *)
(* 20.0.                                                                   *)
(***************************************************************************)
\* the cell holds something other than whitespace
Filled(cell) == ~isna(cell) /\ ~IsBlank(str(cell))

\* the rows of the current heat-loss table that hold a room number and a name
NamedLossRows ==
    SelectSeq(LossRows(source), LAMBDA row : Filled(row[1]) /\ Filled(row[2]))

HeatLossColumn == 19

C30_HeatLossRecords ==
    (pc = "records" /\ TableType(source) = "heat_loss") =>
        /\ Len(source_data) = Len(NamedLossRows)
        /\ \A j \in 1..Len(source_data) :
              LET rec  == source_data[j]
                  row  == NamedLossRows[j]
                  cell == row[HeatLossColumn]
              IN  /\ DOMAIN rec = {"room_number", "room_name", "heat_loss", "temperature"}
                  /\ rec["room_number"] = strip(str(row[1]))
                  /\ rec["room_number"] # ""
                  /\ rec["room_name"] = strip(str(row[2]))
                  /\ rec["room_name"] # ""
                  /\ rec["temperature"] = "#20.0"
                  /\ IsTagged(rec["heat_loss"]) /\ IsDecimal(str(rec["heat_loss"]))
                  /\ rec["heat_loss"] = IF isna(cell) \/ FloatRaises(cell)
                                        THEN "#0.0" ELSE float(cell)

\* a heat-loss table has been read whose rows include one without a room
\* number, followed by a row with a text that is not a number and a row with
\* a blank cell in column S; both later rows gave a record with heat_loss 0.0
C30_Witness ==
    /\ pc = "records"
    /\ TableType(source) = "heat_loss"
    /\ \E i, j, k \in 1..Len(LossRows(source)) :
          /\ i < j /\ j < k
          /\ ~Filled(LossRows(source)[i][1])
          /\ Filled(LossRows(source)[j][1]) /\ Filled(LossRows(source)[j][2])
          /\ ~isna(LossRows(source)[j][HeatLossColumn])
          /\ FloatRaises(LossRows(source)[j][HeatLossColumn])
          /\ Filled(LossRows(source)[k][1]) /\ Filled(LossRows(source)[k][2])
          /\ isna(LossRows(source)[k][HeatLossColumn])
    /\ Len(source_data) = 3
    /\ source_data[2]["heat_loss"] = "#0.0"
    /\ source_data[3]["heat_loss"] = "#0.0"
    /\ source_data[1]["heat_loss"] = "#850.0"

(***************************************************************************)
(* Reverse import (update_excel_with_block_data of excel_reader.py and     *)
(* save_merged_data_with_block_updates of main.py): the values read from   *)
(* the blocks of the drawing are written into the room records, and the    *)
(* records are saved as a spreadsheet.  The two functions update the       *)
(* records by the same statements.  block_data is what                     *)
(* read_block_attributes returns: for each block the stripped texts of its *)
(* attributes under their field names, the room number not empty.          *)
(***************************************************************************)
\* self.config.get("reverse_import_fields", ["supply_system", "extract_system"])
ReverseFieldLists ==
    { <<"supply_system", "extract_system">>, <<"room_name", "supply_system">> }

ImportRooms ==
    { [room_number |-> "101", room_name |-> "Office", supply_system |-> "P1",
       extract_system |-> "V1"],
      [room_number |-> "102", room_name |-> "Lab", supply_system |-> ""],
      [room_number |-> "103", room_name |-> "Store"] }

ImportBlocks ==
    { [room_number |-> "101", room_name |-> "Kabinet", supply_system |-> "P2",
       extract_system |-> ""],
      [room_number |-> "102", supply_system |-> "P1", extract_system |-> "V3"],
      [room_number |-> "999", supply_system |-> "P9", extract_system |-> "V9"] }

ImportRoomLists == UNION { [1..n -> ImportRooms] : n \in 1..MaxRooms }

ImportBlockLists == UNION { [1..n -> ImportBlocks] : n \in 0..MaxEntities }

\* block_dict: for each room number the last block that carries it
RECURSIVE block_dict(_, _)
block_dict(dict, block_data) ==
    IF block_data = << >> THEN dict
    ELSE LET block    == Head(block_data)
             room_num == strip(get(block, "room_number", ""))
         IN  block_dict(IF room_num # "" THEN (room_num :> block) @@ dict ELSE dict,
                        Tail(block_data))

\* variant: a field the block carries is taken, whatever its text
block_value_any(block_info, field) == field \in DOMAIN block_info

\* field in block_info and block_info[field]
block_value(block_info, field) ==
    field \in DOMAIN block_info /\ block_info[field] # ""

\* the loop over reverse_fields for one room record and its block
update_fields(room_info, block_info, reverse_fields) ==
    LET upd == { field \in { reverse_fields[n] : n \in 1..Len(reverse_fields) } :
                   /\ block_value(block_info, field)
                   /\ get(room_info, field, "") # block_info[field] }
    IN  [field \in DOMAIN room_info \cup upd |->
            IF field \in upd THEN block_info[field] ELSE room_info[field]]

\* what saving the records as a spreadsheet does: it succeeds or raises
ImportSaveOutcomes == {"saved", "PermissionError"}

ImportInit ==
    /\ MergeIdle /\ CadIdle /\ MainIdle /\ AttrIdle /\ PlaceIdle
    /\ imp_op \in {"update_excel_with_block_data", "save_merged_data_with_block_updates"}
    /\ imp_pc = "rooms"
    /\ imp_reverse_fields \in ReverseFieldLists
    /\ imp_before \in ImportRoomLists
    /\ imp_room_data = imp_before
    /\ imp_block_data \in ImportBlockLists
    /\ imp_i = 1
    /\ updated_count = 0
    /\ imp_result = "#None"

\* one iteration of: for room_info in room_data
ImportRoom ==
    /\ imp_pc = "rooms" /\ imp_i <= Len(imp_room_data)
    /\ LET room_info == imp_room_data[imp_i]
           room_num  == strip(str(get(room_info, "room_number", "")))
           dict      == block_dict(<< >>, imp_block_data)
       IN  IF room_num \in DOMAIN dict
           THEN /\ imp_room_data' =
                      [imp_room_data EXCEPT ![imp_i] =
                          update_fields(room_info, dict[room_num], imp_reverse_fields)]
                /\ updated_count' = updated_count + 1
           ELSE UNCHANGED <<imp_room_data, updated_count>>
    /\ imp_i' = imp_i + 1
    /\ UNCHANGED <<imp_op, imp_pc, imp_reverse_fields, imp_before, imp_block_data,
                   imp_result>>
    /\ UNCHANGED <<merge_vars, cad_vars, main_vars, attr_vars, place_vars>>

\* the records are saved: return True, or except Exception: return False
ImportSave ==
    /\ imp_pc = "rooms" /\ imp_i > Len(imp_room_data)
    /\ \E outcome \in ImportSaveOutcomes :
          imp_result' = IF outcome = "saved" THEN "True" ELSE "False"
    /\ imp_pc' = "done"
    /\ UNCHANGED <<imp_op, imp_reverse_fields, imp_before, imp_room_data,
                   imp_block_data, imp_i, updated_count>>
    /\ UNCHANGED <<merge_vars, cad_vars, main_vars, attr_vars, place_vars>>

ImportNext == ImportRoom \/ ImportSave

SpecImport == ImportInit /\ [][ImportNext]_vars

(***************************************************************************)
(* C23: the reverse import changes a room record only in fields listed in  *)
(* reverse_import_fields and only when a block carries the record's room   *)
(* number; a changed field holds the non-empty text of such a block, so no *)
(* value is replaced by an empty block value.  Every other field, and      *)
(* every record without a matching block, is as it was passed.             *)
(***************************************************************************)
\* the blocks that carry the room number of the record
MatchingBlocks(room_info) ==
    { k \in 1..Len(imp_block_data) :
        strip(get(imp_block_data[k], "room_number", "")) =
            strip(str(get(room_info, "room_number", ""))) }

\* the fields in which two records differ
ChangedFields(old, new) ==
    { f \in DOMAIN old \cup DOMAIN new :
        f \notin DOMAIN old \/ f \notin DOMAIN new \/ old[f] # new[f] }

C23_ReverseImportFrame ==
    imp_pc \in {"rooms", "done"} =>
        /\ Len(imp_room_data) = Len(imp_before)
        /\ \A i \in 1..Len(imp_before) :
              LET old     == imp_before[i]
                  new     == imp_room_data[i]
                  changed == ChangedFields(old, new)
              IN  /\ DOMAIN old \subseteq DOMAIN new
                  /\ \A f \in changed :
                        \E n \in 1..Len(imp_reverse_fields) : imp_reverse_fields[n] = f
                  /\ MatchingBlocks(old) = {} => changed = {}
                  /\ \A f \in changed :
                        /\ new[f] # ""
                        /\ \E k \in MatchingBlocks(old) :
                              /\ f \in DOMAIN imp_block_data[k]
                              /\ new[f] = imp_block_data[k][f]

\* the import is over: a record took the supply system of its block, kept
\* its extract system where the block holds an empty text and kept its name
\* although the block holds another one, and a record without a block is
\* as it was
C23_Witness ==
    /\ imp_pc = "done"
    /\ Len(imp_before) = 2
    /\ ChangedFields(imp_before[1], imp_room_data[1]) = {"supply_system"}
    /\ \E k \in MatchingBlocks(imp_before[1]) :
          /\ imp_block_data[k]["extract_system"] = ""
          /\ imp_block_data[k]["room_name"] # imp_before[1]["room_name"]
    /\ imp_room_data[1]["extract_system"] = "V1"
    /\ MatchingBlocks(imp_before[2]) = {}
    /\ imp_room_data[2] = imp_before[2]
    /\ imp_block_data # << >>

(***************************************************************************)
(* Writing a room into the attributes of a block (update_block_attributes  *)
(* and _fill_block_attributes of autocad_controller.py).  The two          *)
(* functions compute the text of an attribute by the same statements.      *)
(* The Russian words and the units of the texts are written in Latin       *)
(* letters: "Pomeschenie" is abbreviated "Pom.", a square metre is "m2",   *)
(* a cubic metre per hour "m3/h", a watt "Vt", a degree Celsius "degC".    *)
(***************************************************************************)
\* self.block_attributes: the tag of the attribute that shows a field; the
\* tags are distinct
block_attributes ==
    [f \in {"room_number", "room_name", "area", "air_supply", "heat_loss", "temperature",
            "supply_system"} |->
        CASE f = "room_number"   -> "ROOM_NUMBER"
          [] f = "room_name"     -> "Room_Name"
          [] f = "area"          -> "AREA"
          [] f = "air_supply"    -> "AIR_SUPPLY"
          [] f = "heat_loss"     -> "HEAT_LOSS"
          [] f = "temperature"   -> "TEMPERATURE"
          [] f = "supply_system" -> "SUPPLY_SYSTEM"]

\* str.replace(old, new)
RECURSIVE replace(_, _, _)
replace(s, old, new) ==
    IF Len(s) < Len(old) \/ Len(old) = 0 THEN s
    ELSE IF SubSeq(s, 1, Len(old)) = old
         THEN new \o replace(SubSeq(s, Len(old) + 1, Len(s)), old, new)
         ELSE SubSeq(s, 1, 1) \o replace(SubSeq(s, 2, Len(s)), old, new)

\* the dictionary of _abbreviate_room_name, in its order
abbreviations ==
    << <<"Pomeschenie", "Pom.">>, <<"pomeschenie", "pom.">>,
       <<"Kabinet", "Kab.">>, <<"kabinet", "kab.">>,
       <<"Laboratoriya", "Lab.">>, <<"laboratoriya", "lab.">>,
       <<"Proizvodstvennoe", "Proizv.">>, <<"proizvodstvennoe", "proizv.">>,
       <<"Tehnicheskoe", "Teh.">>, <<"tehnicheskoe", "teh.">> >>

RECURSIVE apply_abbreviations(_, _)
apply_abbreviations(result, n) ==
    IF n > Len(abbreviations) THEN result
    ELSE apply_abbreviations(replace(result, abbreviations[n][1], abbreviations[n][2]),
                             n + 1)

_abbreviate_room_name(room_name) ==
    IF room_name = "" THEN "" ELSE apply_abbreviations(room_name, 1)

\* int(s) of a text of digits
RECURSIVE DigitsValue(_)
DigitsValue(s) ==
    IF Len(s) = 0 THEN 0
    ELSE 10 * DigitsValue(SubSeq(s, 1, Len(s) - 1))
         + (CHOOSE d \in 0..9 : ToString(d) = SubSeq(s, Len(s), Len(s)))

\* f"{num_value:.0f}" and f"{num_value:.1f}" of a float given by its repr,
\* a decimal text; a tie is rounded to the even digit.  Exact for a repr
\* with one fractional digit, as all numbers of the rooms here have.
format_f(num_value, digits) ==
    IF num_value = "nan" THEN "nan"
    ELSE LET neg == SubSeq(num_value, 1, 1) = "-"
             u   == IF neg THEN SubSeq(num_value, 2, Len(num_value)) ELSE num_value
             d   == IndexOfDot(u, 1)
             ip  == DigitsValue(SubSeq(u, 1, d - 1))
             fp  == SubSeq(u, d + 1, Len(u))
             f1  == DigitsValue(SubSeq(fp, 1, 1))
             up0 == \/ f1 > 5
                    \/ f1 = 5 /\ (Len(fp) > 1 \/ ip % 2 = 1)
             f2  == IF Len(fp) > 1 THEN DigitsValue(SubSeq(fp, 2, 2)) ELSE 0
             up1 == \/ f2 > 5
                    \/ f2 = 5 /\ (Len(fp) > 2 \/ f1 % 2 = 1)
             t   == 10 * ip + f1 + (IF up1 THEN 1 ELSE 0)
         IN  (IF neg THEN "-" ELSE "") \o
             (IF digits = 0 THEN ToString(ip + (IF up0 THEN 1 ELSE 0))
              ELSE ToString(t \div 10) \o "." \o ToString(t % 10))

\* the fields written with a unit
FormattedFields == {"area", "air_supply", "air_extract", "heat_loss", "temperature"}

\* the f-string of a formatted field
formatted(data_field, num_value) ==
    CASE data_field = "area"                          -> format_f(num_value, 1) \o " m2"
      [] data_field \in {"air_supply", "air_extract"} -> format_f(num_value, 0) \o " m3/h"
      [] data_field = "heat_loss"                     -> format_f(num_value, 0) \o " Vt"
      [] data_field = "temperature"                   -> format_f(num_value, 1) \o "degC"

\* new_value as the statements compute it: the assignment under
\* 'if data_field == "room_name"' is followed by a second if statement, whose
\* else branch assigns str(value) to every field that is not formatted
new_value(data_field, value) ==
    IF data_field \in FormattedFields
    THEN (IF FloatRaises(value) THEN "0" ELSE formatted(data_field, str(float(value))))
    ELSE str(value)

\* the field whose tag is the tag of the attribute and which the room holds
fields_of_tag(tag, room_data) ==
    { data_field \in DOMAIN block_attributes :
        /\ upper(tag) = upper(block_attributes[data_field])
        /\ data_field \in DOMAIN room_data }

AttrRooms ==
    { [room_number |-> "101", room_name |-> "Pomeschenie ohrany", area |-> "#25.5",
       heat_loss |-> "#1200.0", temperature |-> "#22.0"],
      [room_number |-> "102", room_name |-> "Sklad", area |-> "", air_supply |-> "#350.5",
       supply_system |-> "P1"],
      [room_number |-> "103", room_name |-> "tehnicheskoe pomeschenie", area |-> "#0.0",
       temperature |-> "#-4.5"],
      [room_number |-> "104", room_name |-> ""] }

Attribute(tag, text) == [TagString |-> tag, TextString |-> text]

\* the attributes a block may have
AttrBlocks ==
    { <<Attribute("ROOM_NUMBER", "101"), Attribute("ROOM_NAME", ""), Attribute("AREA", "")>>,
      <<Attribute("room_number", "102"), Attribute("Room_Name", "Sklad"),
        Attribute("AIR_SUPPLY", "350 m3/h"), Attribute("SUPPLY_SYSTEM", "")>>,
      <<Attribute("ROOM_NUMBER", "103"), Attribute("TEMPERATURE", ""),
        Attribute("HEAT_LOSS", ""), Attribute("NOTE", "x")>>,
      <<Attribute("ROOM_NAME", "Pomeschenie ohrany")>> }

\* block_ref.GetAttributes(): the attributes, or no such method
GetAttributesOutcomes == {"ok", "no GetAttributes"}

AttrInit ==
    /\ MergeIdle /\ CadIdle /\ MainIdle /\ ImportIdle /\ PlaceIdle
    /\ attr_op \in {"update_block_attributes", "_fill_block_attributes"}
    /\ attr_pc = "begin"
    /\ attr_room_data \in AttrRooms
    /\ attributes \in AttrBlocks
    /\ attr_i = 1
    /\ attr_updated = 0
    /\ attr_result = "#None"

\* attributes = block_ref.GetAttributes(): on a reference without the method
\* _fill_block_attributes returns False at its hasattr test and
\* update_block_attributes in its handler of AttributeError
GetAttributes ==
    /\ attr_pc = "begin"
    /\ \E outcome \in GetAttributesOutcomes :
          IF outcome = "ok"
          THEN attr_pc' = "attributes" /\ UNCHANGED attr_result
          ELSE attr_pc' = "done" /\ attr_result' = "False"
    /\ UNCHANGED <<attr_op, attr_room_data, attributes, attr_i, attr_updated>>
    /\ UNCHANGED <<merge_vars, cad_vars, main_vars, import_vars, place_vars>>

\* one iteration of the loop over the attributes
WriteAttribute ==
    /\ attr_pc = "attributes" /\ attr_i <= Len(attributes)
    /\ LET tag    == attributes[attr_i].TagString
           fields == fields_of_tag(tag, attr_room_data)
       IN  IF fields = {} THEN UNCHANGED <<attributes, attr_updated>>
           ELSE LET data_field == CHOOSE data_field \in fields : TRUE
                    text == new_value(data_field, attr_room_data[data_field])
                IN  IF attr_op = "update_block_attributes"
                       /\ attributes[attr_i].TextString = text
                    THEN UNCHANGED <<attributes, attr_updated>>
                    ELSE /\ attributes' = [attributes EXCEPT ![attr_i].TextString = text]
                         /\ attr_updated' = attr_updated + 1
    /\ attr_i' = attr_i + 1
    /\ UNCHANGED <<attr_op, attr_pc, attr_room_data, attr_result>>
    /\ UNCHANGED <<merge_vars, cad_vars, main_vars, import_vars, place_vars>>

\* block_ref.Update() and the return: _fill_block_attributes returns True,
\* update_block_attributes returns whether an attribute has changed
AttrReturn ==
    /\ attr_pc = "attributes" /\ attr_i > Len(attributes)
    /\ attr_result' = IF attr_op = "_fill_block_attributes" \/ attr_updated > 0
                      THEN "True" ELSE "False"
    /\ attr_pc' = "done"
    /\ UNCHANGED <<attr_op, attr_room_data, attributes, attr_i, attr_updated>>
    /\ UNCHANGED <<merge_vars, cad_vars, main_vars, import_vars, place_vars>>

AttrNext == GetAttributes \/ WriteAttribute \/ AttrReturn

SpecAttr == AttrInit /\ [][AttrNext]_vars

(***************************************************************************)
(* C27: when a room has been written into the attributes of a block, the   *)
(* attribute whose tag is mapped to room_name holds the abbreviated name   *)
(* that _abbreviate_room_name computes of the room's name.                 *)
(***************************************************************************)
\* every attribute of the block has been handled
AttributesWritten == attr_pc = "done" /\ attr_i > Len(attributes)

C27_RoomNameAbbreviated ==
    (AttributesWritten /\ "room_name" \in DOMAIN attr_room_data) =>
        \A n \in 1..Len(attributes) :
            upper(attributes[n].TagString) = upper(block_attributes["room_name"]) =>
                attributes[n].TextString =
                    _abbreviate_room_name(str(attr_room_data["room_name"]))

(***************************************************************************)
(* Placement by coordinates (handle_coordinate_placement and               *)
(* get_manual_coordinates of main.py, has_coordinates_data and             *)
(* extract_coordinates of excel_reader.py): the coordinates come from the  *)
(* room records or from the prompt, and create_blocks_from_coordinates     *)
(* inserts a block for room i of its first list at entry i of its second.  *)
(***************************************************************************)
\* the cells of a coordinate column: numbers and the blank cell
CoordinateCells == {"#100", "#250.5", "#0", "#nan"}

\* the coordinate cells of a row; "#None": the sheet has no such columns
CoordinateRows ==
    { <<"#None", "#None">>, <<"#100", "#250.5">>, <<"#0", "#0">>, <<"#nan", "#nan">>,
      <<"#250.5", "#0">> }

\* the resolved record of the row of room 100 + i with these cells
PlaceRoom(i, cells) ==
    LET room == [room_number |-> ToString(100 + i), room_name |-> "Office"]
    IN  IF cells[1] = "#None" THEN room
        ELSE room @@ [coordinate_x |-> CoerceCell("coordinate_x", cells[1]),
                      coordinate_y |-> CoerceCell("coordinate_y", cells[2])]

PlaceRoomLists ==
    UNION { { [i \in 1..n |-> PlaceRoom(i, cells[i])] : cells \in [1..n -> CoordinateRows] } :
            n \in 1..MaxRooms }

\* room_data_list[:5]
CheckedRecords == 5

\* value != 0
NotZero(value) == value \notin {"#0", "#0.0", "#-0.0"}

has_coordinates_data(room_list) ==
    \E i \in 1..Len(room_list) :
        /\ i <= CheckedRecords
        /\ get(room_list[i], "coordinate_x", "#None") # "#None"
        /\ get(room_list[i], "coordinate_y", "#None") # "#None"
        /\ NotZero(get(room_list[i], "coordinate_x", "#None"))
        /\ NotZero(get(room_list[i], "coordinate_y", "#None"))

\* if x != 0 or y != 0
coordinates_given(room_data) ==
    \/ NotZero(get(room_data, "coordinate_x", "#0"))
    \/ NotZero(get(room_data, "coordinate_y", "#0"))

\* (float(x), float(y)) raises ValueError
coordinate_raises(room_data) ==
    /\ coordinates_given(room_data)
    /\ \/ FloatRaises(get(room_data, "coordinate_x", "#0"))
       \/ FloatRaises(get(room_data, "coordinate_y", "#0"))

\* extract_coordinates raises: nothing in it catches the ValueError
extract_coordinates_raises(room_list) ==
    \E i \in 1..Len(room_list) : coordinate_raises(room_list[i])

\* the list extract_coordinates returns when it does not raise
extract_coordinates(room_list) ==
    [i \in 1..Len(room_list) |->
        IF coordinates_given(room_list[i])
        THEN <<float(get(room_list[i], "coordinate_x", "#0")),
               float(get(room_list[i], "coordinate_y", "#0"))>>
        ELSE None]

\* str.split(sep)
RECURSIVE split(_, _, _)
split(s, sep, n) ==
    IF n > Len(s) THEN <<s>>
    ELSE IF SubSeq(s, n, n) = sep
         THEN <<SubSeq(s, 1, n - 1)>> \o split(SubSeq(s, n + 1, Len(s)), sep, 1)
         ELSE split(s, sep, n + 1)

\* x, y = map(float, coord_input.split(',')) raises ValueError
input_raises(coord_input) ==
    LET parts == split(coord_input, ",", 1)
    IN  Len(parts) # 2 \/ FloatRaises(parts[1]) \/ FloatRaises(parts[2])

\* (x, y) of an input that does not raise
input_coordinates(coord_input) ==
    LET parts == split(coord_input, ",", 1)
    IN  <<float(parts[1]), float(parts[2])>>

\* what the user may type at a prompt of get_manual_coordinates
Inputs == {"100,200", " 300 , 400.5", "100;200", ""}

\* whether create_blocks_from_coordinates can insert: the drawing is
\* connected and holds the template block
Drawings == {"ready", "no template"}

\* len(room_data_list[:len(coordinates_list)])
rooms_with_coordinates(room_list, coordinate_list) ==
    IF Len(coordinate_list) < Len(room_list) THEN Len(coordinate_list)
    ELSE Len(room_list)

\* the blocks create_blocks_from_coordinates inserts: for i, room_data in
\* enumerate(room_data_list[:len(coordinates_list)]) at coordinates_list[i]
create_blocks_from_coordinates(drawing, room_list, coordinate_list) ==
    IF drawing # "ready" THEN << >>
    ELSE [i \in 1..rooms_with_coordinates(room_list, coordinate_list) |->
            [room_number  |-> room_list[i]["room_number"],
             insert_point |-> coordinate_list[i] \o <<"#0.0">>]]

\* the indices of the entries that are not None
with_coordinates(coords) == { i \in 1..Len(coords) : coords[i] # None }

RECURSIVE select_indices(_, _, _)
select_indices(seq, indices, n) ==
    IF n > Len(seq) THEN << >>
    ELSE (IF n \in indices THEN <<seq[n]>> ELSE << >>) \o select_indices(seq, indices, n + 1)

PlaceInit ==
    /\ MergeIdle /\ CadIdle /\ MainIdle /\ ImportIdle /\ AttrIdle
    /\ place_pc = "start"
    /\ place_room_data \in PlaceRoomLists
    /\ has_coordinates = "#None"
    /\ use_excel_coords = "#None"
    /\ entered = << >>
    /\ coordinates = << >>
    /\ placed = << >>

\* if reader.has_coordinates_data(room_data)
CheckCoordinates ==
    /\ place_pc = "start"
    /\ has_coordinates' = IF has_coordinates_data(place_room_data) THEN "True" ELSE "False"
    /\ place_pc' = IF has_coordinates_data(place_room_data) THEN "ask" ELSE "manual"
    /\ UNCHANGED <<place_room_data, use_excel_coords, entered, coordinates, placed>>
    /\ UNCHANGED <<merge_vars, cad_vars, main_vars, import_vars, attr_vars>>

\* the user takes the coordinates of the spreadsheet: extract_coordinates,
\* the rooms without coordinates are left out, the blocks are created
UseExcelCoordinates ==
    /\ place_pc = "ask"
    /\ use_excel_coords' = "yes"
    /\ IF extract_coordinates_raises(place_room_data)
       THEN /\ place_pc' = "raised"
            /\ UNCHANGED <<coordinates, placed>>
       ELSE LET coords       == extract_coordinates(place_room_data)
                valid_data   == select_indices(place_room_data, with_coordinates(coords), 1)
                valid_coords == select_indices(coords, with_coordinates(coords), 1)
            IN  /\ coordinates' = coords
                /\ IF valid_coords = << >>
                   THEN place_pc' = "returned" /\ UNCHANGED placed
                   ELSE /\ place_pc' = "done"
                        /\ \E drawing \in Drawings :
                              placed' = create_blocks_from_coordinates(drawing, valid_data,
                                                                       valid_coords)
    /\ UNCHANGED <<place_room_data, has_coordinates, entered>>
    /\ UNCHANGED <<merge_vars, cad_vars, main_vars, import_vars, attr_vars>>

\* the user declines the coordinates of the spreadsheet
UseManualCoordinates ==
    /\ place_pc = "ask"
    /\ use_excel_coords' = "no"
    /\ place_pc' = "manual"
    /\ UNCHANGED <<place_room_data, has_coordinates, entered, coordinates, placed>>
    /\ UNCHANGED <<merge_vars, cad_vars, main_vars, import_vars, attr_vars>>

\* one iteration of the loop of get_manual_coordinates: the prompt for the
\* next room; an empty input ends the loop, an input that is no pair of
\* numbers is reported and appends nothing
Prompt ==
    /\ place_pc = "manual" /\ Len(entered) < Len(place_room_data)
    /\ \E typed \in Inputs :
          LET coord_input == strip(typed)
          IN  /\ entered' = Append(entered, typed)
              /\ coordinates' = IF coord_input = "" \/ input_raises(coord_input)
                                THEN coordinates
                                ELSE Append(coordinates, input_coordinates(coord_input))
              /\ place_pc' = IF coord_input = "" \/ Len(entered) + 1 = Len(place_room_data)
                             THEN "entered" ELSE "manual"
    /\ UNCHANGED <<place_room_data, has_coordinates, use_excel_coords, placed>>
    /\ UNCHANGED <<merge_vars, cad_vars, main_vars, import_vars, attr_vars>>

\* get_manual_coordinates returns None or the coordinates;
\* create_blocks_from_coordinates(room_data, template_block, coordinates)
CreateManual ==
    /\ place_pc = "entered"
    /\ IF coordinates = << >>
       THEN place_pc' = "returned" /\ UNCHANGED placed
       ELSE /\ place_pc' = "done"
            /\ \E drawing \in Drawings :
                  placed' = create_blocks_from_coordinates(drawing, place_room_data,
                                                           coordinates)
    /\ UNCHANGED <<place_room_data, has_coordinates, use_excel_coords, entered,
                   coordinates>>
    /\ UNCHANGED <<merge_vars, cad_vars, main_vars, import_vars, attr_vars>>

PlaceNext ==
    \/ CheckCoordinates
    \/ UseExcelCoordinates
    \/ UseManualCoordinates
    \/ Prompt
    \/ CreateManual

SpecPlace == PlaceInit /\ [][PlaceNext]_vars

(***************************************************************************)
(* C28: in the manual placement every block is inserted at the coordinates *)
(* the user typed at the prompt of the block's own room, also when the     *)
(* input for an earlier room was malformed and skipped.                    *)
(***************************************************************************)
\* the coordinates were typed at the prompts
ManualPlacement == place_pc = "done" /\ entered # << >>

C28_OwnCoordinates ==
    ManualPlacement =>
        \A j \in 1..Len(placed) : \A i \in 1..Len(place_room_data) :
            place_room_data[i]["room_number"] = placed[j]["room_number"] =>
                /\ i <= Len(entered)
                /\ strip(entered[i]) # ""
                /\ ~input_raises(strip(entered[i]))
                /\ placed[j]["insert_point"] =
                      input_coordinates(strip(entered[i])) \o <<"#0.0">>

(***************************************************************************)
(* C29: for resolved room records, also with blank coordinate cells        *)
(* (resolved to the empty string), extract_coordinates returns without     *)
(* error a list as long as the records whose entry i is None exactly when  *)
(* record i has no usable coordinate, and has_coordinates_data returns     *)
(* True only if one of the first five records has numeric, non-zero        *)
(* coordinate_x and coordinate_y.                                          *)
(***************************************************************************)
\* the value is a number
IsNumber(value) == IsTagged(value) /\ IsDecimal(str(value))

\* the record holds numbers as coordinates, not both zero
UsableCoordinate(room_data) ==
    /\ IsNumber(get(room_data, "coordinate_x", "#0"))
    /\ IsNumber(get(room_data, "coordinate_y", "#0"))
    /\ \/ NotZero(get(room_data, "coordinate_x", "#0"))
       \/ NotZero(get(room_data, "coordinate_y", "#0"))

\* the record holds two numbers other than zero
NumericNonZero(room_data) ==
    /\ "coordinate_x" \in DOMAIN room_data /\ "coordinate_y" \in DOMAIN room_data
    /\ IsNumber(room_data["coordinate_x"]) /\ NotZero(room_data["coordinate_x"])
    /\ IsNumber(room_data["coordinate_y"]) /\ NotZero(room_data["coordinate_y"])

C29_CoordinatesExtracted ==
    /\ has_coordinates = "True" =>
          \E i \in 1..Len(place_room_data) :
              i <= CheckedRecords /\ NumericNonZero(place_room_data[i])
    /\ use_excel_coords = "yes" =>
          /\ place_pc # "raised"
          /\ Len(coordinates) = Len(place_room_data)
          /\ \A i \in 1..Len(coordinates) :
                coordinates[i] = None <=> ~UsableCoordinate(place_room_data[i])

====
